---- MODULE Spec2Model ----
(***************************************************************************)
(* Verification model of the LinkedIn MCP server: the request dispatcher   *)
(* (server.py, core/mcp_handler.py), the retry engine (utils/retry.py) and  *)
(* the rate limiter (utils/rate_limiter.py), the session manager           *)
(* (api/auth.py) and the token handling of the API client                  *)
(* (api/clients/linkedin.py, utils/auth.py).                               *)
(*                                                                         *)
(* Python values are modelled as follows.  A dict is a function from a set *)
(* of string keys; None is the string None; an exception is a record       *)
(* [kind, message, status]; a raised/returned outcome is a record whose    *)
(* field t is "return" or "raise".                                         *)
(***************************************************************************)
EXTENDS Integers, Sequences, FiniteSets, TLC

VARIABLES
    \* ---- server.py main loop / handle_request ----
    pc,             \* position of the main loop: "read", "handle", "print"
    line,           \* the stripped input line being handled
    svc,            \* behaviour of the (mocked) domain service for this request:
                    \* the outcome of its 1st, 2nd, ... invocation
    response,       \* the response object returned by handle_request
    svc_calls,      \* number of domain-service invocations made for this line
    handler_runs,   \* number of handler bodies entered for this line
    \* ---- utils/retry.py executor ----
    rpc,            \* position inside _retry_*_operation
    flavour,        \* "sync" or "async"
    config,         \* the RetryConfig
    op,             \* outcomes of the wrapped function, one per invocation
    attempt,        \* loop variable of `for attempt in range(1, max_attempts + 1)`
    invocations,    \* how often func was invoked
    sleeps,         \* sequence of backoff delays slept so far
    elapsed,        \* time.monotonic() - start_time
    last_exception, \* the variable of that name
    outcome,        \* what the executor returned or raised
    \* ---- utils/rate_limiter.py RateLimiter ----
    lim,            \* the limiter's constructor arguments
    requests,       \* self.requests: the recorded admission timestamps
    clock,          \* time.time()
    now,            \* the local `now` of the latest _acquire
    acquired,       \* what the latest _acquire returned or raised
    wpc,            \* position of a call through the wrapper of __call__
    wattempt,       \* the wrapper's loop variable `attempt`
    func_calls,     \* invocations of the wrapped function by the current call
    woutcome,       \* what the wrapper returned or raised
    \* ---- api/auth.py LinkedInAuth ----
    api_client,     \* self.api_client
    driver,         \* self.driver
    dropped,        \* a driver this manager started was let go without quit()
    session_state,  \* self.session_state
    session_files,  \* the files <session_dir>/<username>.session
    today,          \* datetime.now(), in days
    auth_op,        \* the latest call of login, logout or check_session
    \* ---- api/clients/linkedin.py LinkedInAPIClient ----
    _session_state, \* self._session_state
    utcnow,         \* datetime.utcnow()
    client_cfg,     \* what the client was constructed with
    client_op,      \* the latest call on the client
    \* ---- api/job_search.py, api/profile.py: the entity caches ----
    jobs_dir,       \* the files <jobs_dir>/<job_id>.json
    profiles_dir,   \* the files <profiles_dir>/<profile_id>.json
    companies_dir,  \* the files <companies_dir>/<company_id>.json
    cache_now,      \* datetime.now() as the cache writers read it
    cache_op,       \* the latest cache write
    \* ---- server.py main: the input stream, the reader threads, shutdown ----
    platform,       \* sys.platform: "posix" or "win32"
    mpc,            \* position of main: "while", "wait", "handle", "print",
                    \* "finally", "exited"
    stdin,          \* the lines written to the input stream and not yet read
    submitted,      \* how many request lines were written so far
    orphans,        \* executor threads blocked in readline whose future was
                    \* cancelled
    item,           \* the line main is handling
    reply,          \* the response main is about to print
    stdout,         \* the responses printed so far
    taken,          \* the request lines main got from read_stdin so far
    _shutdown_event, \* self._shutdown_event.is_set()
    signals,        \* SIGTERM / SIGINT deliveries so far
    \* ---- MCPHandler.__init__: the LinkedInAuth objects of the handler and of its services ----
    handler_auth,   \* MCPHandler.auth
    job_search_auth, \* MCPHandler.job_search.auth
    profile_auth,   \* MCPHandler.profile.auth
    session_dir,    \* the session files, one directory for every LinkedInAuth
    handler_op,     \* the latest handler that ran and how it ended
    \* ---- clients/linkedin.py: concurrent _make_request calls on one client ----
    tasks,          \* each task's position in _make_request and the refresh token its refresh call read
    shared_state,   \* self._session_state of the client the tasks share
    shared_cfg,     \* the configuration of that client
    in_flight,      \* refresh POSTs sent and not yet answered
    refresh_posts,  \* refresh POSTs sent so far
    \* ---- rate_limiter.py: concurrent _acquire calls on one RateLimiter ----
    limiter,        \* the RateLimiter the callers share: max_requests, window
    timestamps,     \* self.requests of that limiter
    lock,           \* self.lock: the caller that holds it, 0 when it is free
    callers,        \* each caller's position in _acquire and its local now
    wall,           \* time.time()
    admissions,     \* the timestamps _acquire returned of late
    \* ---- api/job_search.py, api/profile.py: one entity operation, cache first, then the programmatic and the browser path ----
    entity_file,    \* the cache file of the entity the operation asks for
    fetch_now,      \* datetime.now() of the services, in whole days
    fetch,          \* the operation: its position, what the manager holds, the attempts made, the result
    \* ---- api/auth.py, api/job_search.py, api/profile.py: concurrent writers and readers of one cache file ----
    key_file,       \* the file of the key: whether it exists, and what it holds
    key_writers,    \* each writer's position in open(path, 'w') ... dump ... close
    key_reader      \* what the latest reader found

dvars == <<pc, line, svc, response, svc_calls, handler_runs>>
rvars == <<rpc, flavour, config, op, attempt, invocations, sleeps, elapsed,
           last_exception, outcome>>
lvars == <<lim, requests, clock, now, acquired, wpc, wattempt, func_calls,
           woutcome>>
avars == <<api_client, driver, dropped, session_state, session_files, today,
           auth_op>>
cvars == <<_session_state, utcnow, client_cfg, client_op>>
evars == <<jobs_dir, profiles_dir, companies_dir, cache_now, cache_op>>
mvars == <<platform, mpc, stdin, submitted, orphans, item, reply, stdout, taken,
           _shutdown_event, signals>>
hvars == <<handler_auth, job_search_auth, profile_auth, session_dir, handler_op>>
tvars == <<tasks, shared_state, shared_cfg, in_flight, refresh_posts>>
kvars == <<limiter, timestamps, lock, callers, wall, admissions>>
fvars == <<entity_file, fetch_now, fetch>>
wvars == <<key_file, key_writers, key_reader>>
vars == <<pc, line, svc, response, svc_calls, handler_runs,
          rpc, flavour, config, op, attempt, invocations, sleeps, elapsed,
          last_exception, outcome,
          lim, requests, clock, now, acquired, wpc, wattempt, func_calls,
          woutcome,
          api_client, driver, dropped, session_state, session_files, today,
          auth_op,
          _session_state, utcnow, client_cfg, client_op,
          jobs_dir, profiles_dir, companies_dir, cache_now, cache_op,
          platform, mpc, stdin, submitted, orphans, item, reply, stdout, taken,
          _shutdown_event, signals,
          handler_auth, job_search_auth, profile_auth, session_dir, handler_op,
          tasks, shared_state, shared_cfg, in_flight, refresh_posts,
          limiter, timestamps, lock, callers, wall, admissions,
          entity_file, fetch_now, fetch,
          key_file, key_writers, key_reader>>

\* what the steps of one component leave alone: the other components
outside_dispatcher == <<rvars, lvars, avars, cvars, evars, mvars, hvars, tvars, kvars, fvars, wvars>>
outside_retry == <<dvars, lvars, avars, cvars, evars, mvars, hvars, tvars, kvars, fvars, wvars>>
outside_limiter == <<dvars, rvars, avars, cvars, evars, mvars, hvars, tvars, kvars, fvars, wvars>>
outside_auth == <<dvars, rvars, lvars, cvars, evars, mvars, hvars, tvars, kvars, fvars, wvars>>
outside_client == <<dvars, rvars, lvars, avars, evars, mvars, hvars, tvars, kvars, fvars, wvars>>
outside_cache == <<dvars, rvars, lvars, avars, cvars, mvars, hvars, tvars, kvars, fvars, wvars>>
outside_loop == <<dvars, rvars, lvars, avars, cvars, evars, hvars, tvars, kvars, fvars, wvars>>
outside_handler == <<dvars, rvars, lvars, avars, cvars, evars, mvars, tvars, kvars, fvars, wvars>>
outside_tasks == <<dvars, rvars, lvars, avars, cvars, evars, mvars, hvars, kvars, fvars, wvars>>
outside_callers == <<dvars, rvars, lvars, avars, cvars, evars, mvars, hvars, tvars, fvars, wvars>>
outside_fetch == <<dvars, rvars, lvars, avars, cvars, evars, mvars, hvars, tvars, kvars, wvars>>
outside_writers == <<dvars, rvars, lvars, avars, cvars, evars, mvars, hvars, tvars, kvars, fvars>>

None == "<None>"
NoStatus == -1          \* an exception object without a status_code attribute

(***************************************************************************)
(* Exceptions                                                              *)
(***************************************************************************)

\* core/exceptions.py: the taxonomy kinds and their default status codes.
TaxonomyStatus ==
    [ AuthenticationError     |-> 401,
      AuthorizationError      |-> 403,
      RateLimitError          |-> 429,
      ValidationError         |-> 400,
      NotFoundError           |-> 404,
      ConflictError           |-> 409,
      ServiceUnavailableError |-> 503,
      TimeoutError            |-> 408,
      NetworkError            |-> 0,
      RetryError              |-> 500,
      QuotaExceededError      |-> 429 ]

TaxonomyKinds == DOMAIN TaxonomyStatus

\* LinkedInMCPError.__init__ of the kind's class with its default message
TaxonomyError(kind, message) ==
    [kind |-> kind, message |-> message, status |-> TaxonomyStatus[kind],
     retry_after |-> NoStatus]

\* RateLimitError(retry_after=n)
RateLimitError(n) ==
    [kind |-> "RateLimitError", message |-> "Rate limit exceeded",
     status |-> TaxonomyStatus["RateLimitError"], retry_after |-> n]

\* a builtin exception such as Exception("...") or TypeError("...")
PyException(kind, message) ==
    [kind |-> kind, message |-> message, status |-> NoStatus,
     retry_after |-> NoStatus]

\* str(e): LinkedInMCPError.__str__ appends the status code to the message,
\* a builtin exception prints its message only.
Str(e) == [text |-> e.message, status |-> e.status]

(***************************************************************************)
(* core/protocol.py                                                        *)
(***************************************************************************)

Error(code, message, data) == [code |-> code, message |-> message, data |-> data]

SuccessResponse(id, result) == [jsonrpc |-> "2.0", id |-> id, result |-> result]

\* variant: the id is taken from a keyword the caller never passes
ErrorResponse_LostId(id, error) == [jsonrpc |-> "2.0", id |-> None, error |-> error]

ErrorResponse(id, error) == [jsonrpc |-> "2.0", id |-> id, error |-> error]

IsSuccess(r) == DOMAIN r = {"jsonrpc", "id", "result"}
IsFailure(r) == DOMAIN r = {"jsonrpc", "id", "error"}

\* the value of `response` while no response object exists
NoResponse == [id |-> None]

(***************************************************************************)
(* Dict helpers                                                            *)
(***************************************************************************)

\* params.get(name)
Get(params, name) == IF name \in DOMAIN params THEN params[name] ELSE None

\* Python truthiness of a str-or-None value: `not v` holds for None and ""
Truthy(v) == v # None /\ v # ""

(***************************************************************************)
(* The domain services as the dispatcher sees them: black boxes whose n-th *)
(* invocation returns a value or raises.                                   *)
(***************************************************************************)

Returns(v) == [t |-> "ok", value |-> v]
Raises(e) == [t |-> "raise", exc |-> e]

\* the n-th call of the service operation behind a handler
ServiceCall(script, n) ==
    IF script[n].t = "ok"
    THEN [t |-> "return", value |-> script[n].value, calls |-> 1]
    ELSE [t |-> "raise", exc |-> script[n].exc, calls |-> 1]

\* `raise Exception(msg)` before any service call
RaiseException(msg) ==
    [t |-> "raise", exc |-> PyException("Exception", msg), calls |-> 0]

\* try: return service(...)  except Exception as e: return {"success": False, ...}
SwallowErrors(r) ==
    IF r.t = "raise"
    THEN [t |-> "return",
          value |-> [success |-> FALSE, error |-> Str(r.exc)],
          calls |-> r.calls]
    ELSE r

(***************************************************************************)
(* core/mcp_handler.py: the handler methods                                *)
(***************************************************************************)

_handle_login(params, script) ==
    IF ~Truthy(Get(params, "username")) \/ ~Truthy(Get(params, "password"))
    THEN RaiseException("Username and password are required")
    ELSE ServiceCall(script, 1)

_handle_logout(params, script) == ServiceCall(script, 1)

_handle_check_session(params, script) == ServiceCall(script, 1)

_handle_get_feed(params, script) == ServiceCall(script, 1)

_handle_get_profile(params, script) ==
    IF ~Truthy(Get(params, "profileId"))
    THEN RaiseException("Profile ID is required")
    ELSE ServiceCall(script, 1)

_handle_get_company(params, script) ==
    IF ~Truthy(Get(params, "companyId"))
    THEN RaiseException("Company ID is required")
    ELSE ServiceCall(script, 1)

_handle_search_jobs(params, script) == ServiceCall(script, 1)

_handle_get_job_details(params, script) ==
    IF ~Truthy(Get(params, "jobId"))
    THEN RaiseException("Job ID is required")
    ELSE ServiceCall(script, 1)

_handle_get_recommended_jobs(params, script) == ServiceCall(script, 1)

_handle_generate_resume(params, script) ==
    IF ~Truthy(Get(params, "profileId"))
    THEN RaiseException("Profile ID is required")
    ELSE SwallowErrors(ServiceCall(script, 1))

_handle_generate_cover_letter(params, script) ==
    IF ~Truthy(Get(params, "profileId")) \/ ~Truthy(Get(params, "jobId"))
    THEN RaiseException("Profile ID and Job ID are required")
    ELSE SwallowErrors(ServiceCall(script, 1))

_handle_tailor_resume(params, script) ==
    IF ~Truthy(Get(params, "profileId")) \/ ~Truthy(Get(params, "jobId"))
    THEN RaiseException("Profile ID and Job ID are required")
    ELSE SwallowErrors(ServiceCall(script, 1))

_handle_apply_to_job(params, script) ==
    IF ~Truthy(Get(params, "jobId")) \/ ~Truthy(Get(params, "resumeId"))
    THEN RaiseException("Job ID and Resume ID are required")
    ELSE ServiceCall(script, 1)

_handle_save_job(params, script) ==
    IF ~Truthy(Get(params, "jobId"))
    THEN RaiseException("Job ID is required")
    ELSE ServiceCall(script, 1)

\* The methods the class MCPHandler defines with `def _handle_...`.
ClassMethods ==
    { "_handle_apply_to_job",
      "_handle_check_session",
      "_handle_generate_cover_letter",
      "_handle_generate_resume",
      "_handle_get_application_status",
      "_handle_get_company",
      "_handle_get_feed",
      "_handle_get_job_details",
      "_handle_get_profile",
      "_handle_get_recommended_jobs",
      "_handle_get_saved_jobs",
      "_handle_login",
      "_handle_logout",
      "_handle_save_job",
      "_handle_search_jobs",
      "_handle_tailor_resume" }

\* self.method_handlers as the dict literal of MCPHandler.__init__ writes it:
\* method name -> name of the attribute registered for it.
method_handlers ==
    ("linkedin.login" :> "_handle_login") @@
    ("linkedin.logout" :> "_handle_logout") @@
    ("linkedin.checkSession" :> "_handle_check_session") @@
    ("linkedin.getProfile" :> "_handle_get_profile") @@
    ("linkedin.updateProfile" :> "_handle_update_profile") @@
    ("linkedin.getCompany" :> "_handle_get_company") @@
    ("linkedin.searchCompanies" :> "_handle_search_companies") @@
    ("linkedin.searchJobs" :> "_handle_search_jobs") @@
    ("linkedin.getJobDetails" :> "_handle_get_job_details") @@
    ("linkedin.getRecommendedJobs" :> "_handle_get_recommended_jobs") @@
    ("linkedin.saveJob" :> "_handle_save_job") @@
    ("linkedin.unsaveJob" :> "_handle_unsave_job") @@
    ("linkedin.generateResume" :> "_handle_generate_resume") @@
    ("linkedin.generateCoverLetter" :> "_handle_generate_cover_letter") @@
    ("linkedin.getResumeTemplates" :> "_handle_get_resume_templates") @@
    ("linkedin.getCoverLetterTemplates" :> "_handle_get_cover_letter_templates") @@
    ("linkedin.applyToJob" :> "_handle_apply_to_job") @@
    ("linkedin.trackApplication" :> "_handle_track_application") @@
    ("linkedin.withdrawApplication" :> "_handle_withdraw_application") @@
    ("linkedin.getConnections" :> "_handle_get_connections") @@
    ("linkedin.sendConnectionRequest" :> "_handle_send_connection_request") @@
    ("linkedin.acceptConnectionRequest" :> "_handle_accept_connection_request") @@
    ("linkedin.sendMessage" :> "_handle_send_message") @@
    ("linkedin.getMessages" :> "_handle_get_messages") @@
    ("linkedin.getMessageThread" :> "_handle_get_message_thread") @@
    ("linkedin.getFeed" :> "_handle_get_feed") @@
    ("linkedin.getPost" :> "_handle_get_post") @@
    ("linkedin.createPost" :> "_handle_create_post") @@
    ("linkedin.likePost" :> "_handle_like_post") @@
    ("linkedin.commentOnPost" :> "_handle_comment_on_post") @@
    ("linkedin.getNotifications" :> "_handle_get_notifications") @@
    ("linkedin.markNotificationAsRead" :> "_handle_mark_notification_as_read") @@
    ("linkedin.getPrivacySettings" :> "_handle_get_privacy_settings") @@
    ("linkedin.updatePrivacySettings" :> "_handle_update_privacy_settings") @@
    ("linkedin.getEmailPreferences" :> "_handle_get_email_preferences") @@
    ("linkedin.updateEmailPreferences" :> "_handle_update_email_preferences")

\* 23 of these attributes are not defined by the class, so __init__ as
\* written cannot finish; process_request is modelled on a handler object that
\* holds this table, and requests are dispatched only to the entries whose
\* method the class defines.
DispatchableMethods ==
    {m \in DOMAIN method_handlers : method_handlers[m] \in ClassMethods}

\* the body of the method named h, run on (params, service behaviour)
HandlerBody(h, params, script) ==
    CASE h = "_handle_login"                 -> _handle_login(params, script)
      [] h = "_handle_logout"                -> _handle_logout(params, script)
      [] h = "_handle_check_session"         -> _handle_check_session(params, script)
      [] h = "_handle_get_feed"              -> _handle_get_feed(params, script)
      [] h = "_handle_get_profile"           -> _handle_get_profile(params, script)
      [] h = "_handle_get_company"           -> _handle_get_company(params, script)
      [] h = "_handle_search_jobs"           -> _handle_search_jobs(params, script)
      [] h = "_handle_get_job_details"       -> _handle_get_job_details(params, script)
      [] h = "_handle_get_recommended_jobs"  -> _handle_get_recommended_jobs(params, script)
      [] h = "_handle_generate_resume"       -> _handle_generate_resume(params, script)
      [] h = "_handle_generate_cover_letter" -> _handle_generate_cover_letter(params, script)
      [] h = "_handle_tailor_resume"         -> _handle_tailor_resume(params, script)
      [] h = "_handle_apply_to_job"          -> _handle_apply_to_job(params, script)
      [] h = "_handle_save_job"              -> _handle_save_job(params, script)

(***************************************************************************)
(* core/mcp_handler.py: process_request                                    *)
(***************************************************************************)

\* keyword arguments of the call `handler(params=..., request_id=...)`
CallKwargs == {"params", "request_id"}

\* parameters every `def _handle_x(self, params)` accepts
HandlerParameters(h) == {"params"}

\* asyncio.iscoroutinefunction(handler): every handler is a plain `def`
IsCoroutineFunction(h) == h \notin ClassMethods

\* variant: the handler is called with `params` only and its value is used
\* without `await`
InvokeHandler_Direct(h, params, request_id, script) ==
    LET b == HandlerBody(h, params, script) IN
    IF b.t = "raise"
    THEN [t |-> "raise", exc |-> b.exc, calls |-> b.calls, runs |-> 1]
    ELSE [t |-> "return", value |-> b.value, calls |-> b.calls, runs |-> 1]

\* result = await handler(params=request.params or {}, request_id=request.id)
\* Python binds the arguments before the body runs: a keyword the function
\* does not accept raises TypeError and the body is not entered.  `await` on
\* the dict a plain function returned raises TypeError after the body ran.
InvokeHandler(h, params, request_id, script) ==
    IF ~(CallKwargs \subseteq HandlerParameters(h))
    THEN [t |-> "raise",
          exc |-> PyException("TypeError", "unexpected keyword argument 'request_id'"),
          calls |-> 0, runs |-> 0]
    ELSE LET b == HandlerBody(h, params, script) IN
         IF b.t = "raise"
         THEN [t |-> "raise", exc |-> b.exc, calls |-> b.calls, runs |-> 1]
         ELSE IF IsCoroutineFunction(h)
         THEN [t |-> "return", value |-> b.value, calls |-> b.calls, runs |-> 1]
         ELSE [t |-> "raise",
               exc |-> PyException("TypeError", "object can't be used in 'await' expression"),
               calls |-> b.calls, runs |-> 1]

\* variant: the lookup result is not tested, an unknown method ends in the
\* fallback `except Exception` as a call of None
process_request_body_NoLookupCheck(request, script) ==
    LET r == IF request.method \in DOMAIN method_handlers
             THEN InvokeHandler(method_handlers[request.method],
                                request.params, request.id, script)
             ELSE [t |-> "raise",
                   exc |-> PyException("TypeError", "'NoneType' object is not callable"),
                   calls |-> 0, runs |-> 0]
    IN  IF r.t = "return"
        THEN [t |-> "return",
              value |-> SuccessResponse(request.id, r.value),
              calls |-> r.calls, runs |-> r.runs]
        ELSE [t |-> "return",
              value |-> ErrorResponse(request.id,
                           Error(-32603,
                                 [text |-> "Internal server error"],
                                 [method |-> request.method, error |-> Str(r.exc)])),
              calls |-> r.calls, runs |-> r.runs]

\* the undecorated body of process_request (lines 211-249)
process_request_body(request, script) ==
    IF request.method \notin DOMAIN method_handlers
    THEN [t |-> "return",
          value |-> ErrorResponse(request.id,
                       Error(-32601,
                             [text |-> "Method not found", method |-> request.method],
                             [available_methods |-> DOMAIN method_handlers])),
          calls |-> 0, runs |-> 0]
    ELSE LET r == InvokeHandler(method_handlers[request.method],
                                request.params, request.id, script) IN
         IF r.t = "return"
         THEN [t |-> "return",
               value |-> SuccessResponse(request.id, r.value),
               calls |-> r.calls, runs |-> r.runs]
         ELSE [t |-> "return",
               value |-> ErrorResponse(request.id,
                            Error(-32603,
                                  [text |-> "Internal server error"],
                                  [method |-> request.method, error |-> Str(r.exc)])),
               calls |-> r.calls, runs |-> r.runs]

\* @handle_errors: an exception escaping the method becomes an ErrorResponse
\* whose id is kwargs.get('request_id'); the server passes no such keyword,
\* so that id is None.
handle_errors(r) ==
    IF r.t = "return"
    THEN r
    ELSE [t |-> "return",
          value |-> ErrorResponse(None,
                       Error(-32603,
                             [text |-> "Internal server error"],
                             [error |-> Str(r.exc)])),
          calls |-> r.calls, runs |-> r.runs]

process_request(request, script) ==
    handle_errors(process_request_body(request, script))

(***************************************************************************)
(* server.py: handle_request                                               *)
(***************************************************************************)

\* json.loads(raw_request) followed by MCPRequest(**request_data):
\*   "not_json"   json.loads raises JSONDecodeError (a ValueError)
\*   "non_object" valid JSON that is not an object: ** raises TypeError
\*   "object"     a JSON object; MCPRequest requires `method` to be a string
\* An absent or null `params` is the empty dict after `request.params or {}`.
ParseRequest(l) ==
    IF l.shape = "not_json" \/ l.shape = "non_object" \/ l.method = None
    THEN [t |-> "raise",
          exc |-> IF l.shape = "non_object"
                  THEN PyException("TypeError", "argument after ** must be a mapping")
                  ELSE PyException("ValueError", "Invalid JSON-RPC 2.0 request")]
    ELSE [t |-> "return",
          value |-> [id |-> l.id, method |-> l.method, params |-> l.params]]

\* The value is the response object whose .json() the method returns: the
\* JSON text has exactly the members of the object.
handle_request(l, script) ==
    LET parsed == ParseRequest(l) IN
    IF parsed.t = "raise"
    THEN \* request_id is still None; `except Exception` (lines 128-137)
         [resp |-> ErrorResponse(None,
                      Error(-32603,
                            [text |-> "Internal server error"],
                            [error |-> Str(parsed.exc)])),
          calls |-> 0, runs |-> 0]
    ELSE LET r == process_request(parsed.value, script) IN
         [resp |-> r.value, calls |-> r.calls, runs |-> r.runs]

(***************************************************************************)
(* Inputs of the dispatcher model                                          *)
(***************************************************************************)

MaxParams == 2          \* largest number of entries in a request's params

\* request ids: JSON null or a string
Ids == {None, "r1", "r2"}

ParamNames == {"profileId", "jobId", "resumeId", "username", "password", "companyId"}

\* a supplied value is an empty or a non-empty string
ParamValues == {"", "42"}

ParamDicts ==
    UNION {[S -> ParamValues] :
              S \in {T \in SUBSET ParamNames : Cardinality(T) <= MaxParams}}

\* methods a request may name: the dispatchable ones, methods whose handler
\* exists but is not registered, an unknown one
UnregisteredMethods ==
    {"linkedin.tailorResume", "linkedin.getApplicationStatus", "linkedin.unknown"}

RequestMethods == DispatchableMethods \cup UnregisteredMethods

NoLine == [shape |-> "none", id |-> None, method |-> None, params |-> <<>>]

MalformedLines ==
    [shape : {"not_json", "non_object"}, id : {None}, method : {None},
     params : {<<>>}]

ObjectLines ==
    [shape : {"object"}, id : Ids, method : RequestMethods \cup {None},
     params : ParamDicts]

\* a line that is empty after strip()
BlankLine == [shape |-> "blank", id |-> None, method |-> None, params |-> <<>>]

Lines == MalformedLines \cup ObjectLines \cup {BlankLine}

\* values a domain service returns
JobRecord == [job_id |-> "42", title |-> "Engineer"]
FileRecord == [success |-> TRUE, file_path |-> "resume.pdf"]

\* behaviours of the service behind a request
Scripts ==
    { <<Returns(JobRecord)>>,
      <<Returns(FileRecord)>>,
      <<Raises(TaxonomyError("AuthenticationError", "Authentication failed"))>>,
      <<Raises(TaxonomyError("NotFoundError", "resource not found"))>>,
      <<Raises(RateLimitError(5))>>,
      <<Raises(PyException("Exception", "Not logged in"))>>,
      <<Raises(RateLimitError(5)), Returns(JobRecord)>> }

(***************************************************************************)
(* server.py: the main loop, one request at a time                         *)
(***************************************************************************)

RetryIdle ==
    /\ rpc = "off"
    /\ flavour = "sync"
    /\ config = [max_attempts |-> 1]
    /\ op = <<>>
    /\ attempt = 0
    /\ invocations = 0
    /\ sleeps = <<>>
    /\ elapsed = 0
    /\ last_exception = [kind |-> None]
    /\ outcome = [t |-> "none"]

\* no RateLimiter has been constructed
LimiterIdle ==
    /\ lim = [max_requests |-> 0]
    /\ requests = <<>>
    /\ clock = 0
    /\ now = 0
    /\ acquired = [t |-> "none"]
    /\ wpc = "off"
    /\ wattempt = 0
    /\ func_calls = 0
    /\ woutcome = [t |-> "none"]

\* no LinkedInAuth has been constructed
AuthIdle ==
    /\ api_client = None
    /\ driver = None
    /\ dropped = FALSE
    /\ session_state = [logged_in |-> FALSE]
    /\ session_files = <<>>
    /\ today = 0
    /\ auth_op = [name |-> "off"]

\* no LinkedInAPIClient has been constructed
ClientIdle ==
    /\ _session_state = [present |-> FALSE]
    /\ utcnow = 0
    /\ client_cfg = [credentials |-> FALSE]
    /\ client_op = [name |-> "off"]

\* no entity cache is in use
CacheIdle ==
    /\ jobs_dir = <<>>
    /\ profiles_dir = <<>>
    /\ companies_dir = <<>>
    /\ cache_now = 0
    /\ cache_op = [name |-> "off"]

\* main is not running
LoopIdle ==
    /\ platform = "none"
    /\ mpc = "off"
    /\ stdin = <<>>
    /\ submitted = 0
    /\ orphans = 0
    /\ item = [n |-> 0]
    /\ reply = [id |-> None]
    /\ stdout = <<>>
    /\ taken = <<>>
    /\ _shutdown_event = FALSE
    /\ signals = 0

\* no MCPHandler was constructed
HandlerIdle ==
    /\ handler_auth = [api_client |-> None]
    /\ job_search_auth = [api_client |-> None]
    /\ profile_auth = [api_client |-> None]
    /\ session_dir = <<>>
    /\ handler_op = [method |-> "off"]

\* no concurrent requests
TasksIdle ==
    /\ tasks = <<>>
    /\ shared_state = [present |-> FALSE]
    /\ shared_cfg = [credentials |-> FALSE]
    /\ in_flight = 0
    /\ refresh_posts = 0

\* no concurrent callers
CallersIdle ==
    /\ limiter = [max_requests |-> 0]
    /\ timestamps = <<>>
    /\ lock = 0
    /\ callers = <<>>
    /\ wall = 0
    /\ admissions = <<>>

\* no entity operation
FetchIdle ==
    /\ entity_file = [kind |-> "absent"]
    /\ fetch_now = 0
    /\ fetch = [pc |-> "off"]

\* no concurrent writers
WritersIdle ==
    /\ key_file = [exists |-> FALSE, bytes |-> <<>>]
    /\ key_writers = <<>>
    /\ key_reader = [t |-> "off"]

Init ==
    /\ pc = "read"
    /\ line = NoLine
    /\ svc = <<>>
    /\ response = NoResponse
    /\ svc_calls = 0
    /\ handler_runs = 0
    /\ RetryIdle
    /\ LimiterIdle
    /\ AuthIdle
    /\ ClientIdle
    /\ CacheIdle
    /\ LoopIdle
    /\ HandlerIdle
    /\ TasksIdle
    /\ CallersIdle
    /\ FetchIdle
    /\ WritersIdle

\* line = (await read_stdin()).strip(); an empty line is skipped with
\* `continue`.  For any other line the services are in some state that
\* fixes how they would answer this request.
ReadLine ==
    /\ pc = "read"
    /\ \E l \in Lines, s \in Scripts :
          IF l = BlankLine
          THEN UNCHANGED <<pc, line, svc>>
          ELSE /\ line' = l
               /\ svc' = s
               /\ pc' = "handle"
    /\ UNCHANGED <<response, svc_calls, handler_runs>>
    /\ UNCHANGED outside_dispatcher

\* response = await server.handle_request(line)
HandleRequest ==
    /\ pc = "handle"
    /\ LET h == handle_request(line, svc) IN
          /\ response' = h.resp
          /\ svc_calls' = h.calls
          /\ handler_runs' = h.runs
    /\ pc' = "print"
    /\ UNCHANGED <<line, svc>>
    /\ UNCHANGED outside_dispatcher

\* print(response, flush=True); the loop's locals are rebound next round
PrintResponse ==
    /\ pc = "print"
    /\ pc' = "read"
    /\ line' = NoLine
    /\ svc' = <<>>
    /\ response' = NoResponse
    /\ svc_calls' = 0
    /\ handler_runs' = 0
    /\ UNCHANGED outside_dispatcher

Next == ReadLine \/ HandleRequest \/ PrintResponse

Spec == Init /\ [][Next]_vars

(***************************************************************************)
(* Properties of the dispatcher                                            *)
(***************************************************************************)

\* the line was parsed into an MCPRequest
Parsed == line.shape = "object" /\ line.method # None

\* parameters each handler insists on before it calls its service
RequiredParams ==
    ("linkedin.login" :> {"username", "password"}) @@
    ("linkedin.logout" :> {}) @@
    ("linkedin.checkSession" :> {}) @@
    ("linkedin.getProfile" :> {"profileId"}) @@
    ("linkedin.getCompany" :> {"companyId"}) @@
    ("linkedin.searchJobs" :> {}) @@
    ("linkedin.getJobDetails" :> {"jobId"}) @@
    ("linkedin.getRecommendedJobs" :> {}) @@
    ("linkedin.saveJob" :> {"jobId"}) @@
    ("linkedin.generateResume" :> {"profileId"}) @@
    ("linkedin.generateCoverLetter" :> {"profileId", "jobId"}) @@
    ("linkedin.applyToJob" :> {"jobId", "resumeId"}) @@
    ("linkedin.getFeed" :> {})

\* the request names a dispatchable method and carries a non-empty value
\* for each of its required parameters
CompleteRequest ==
    /\ Parsed
    /\ line.method \in DispatchableMethods
    /\ \A n \in RequiredParams[line.method] : Truthy(Get(line.params, n))

InternalErrorCode == -32603
MethodNotFoundCode == -32601
ValidationCodes == {-32602, TaxonomyStatus["ValidationError"]}

\* C1: a request to a registered method that supplies every required
\* parameter, with a service that returns v, is answered by a Success with
\* jsonrpc "2.0", the request's id, result v and no error member.
C1_SuccessEchoesResult ==
    (pc = "print" /\ CompleteRequest /\ svc[1].t = "ok")
        => response = SuccessResponse(line.id, svc[1].value)

\* C2: a request for a method that is not a key of the handler table runs no
\* handler and is answered by a method-not-found Failure that echoes the id
\* and lists every registered method name.
C2_UnknownMethod ==
    (pc = "print" /\ Parsed /\ line.method \notin DOMAIN method_handlers)
        => /\ handler_runs = 0
           /\ svc_calls = 0
           /\ IsFailure(response)
           /\ response.error.code = MethodNotFoundCode
           /\ response.id = line.id
           /\ DOMAIN method_handlers \subseteq response.error.data.available_methods

C2_Witness ==
    /\ pc = "print"
    /\ line.method = "linkedin.tailorResume"
    /\ line.id = "r1"
    /\ IsFailure(response)
    /\ response.error.code = MethodNotFoundCode
    /\ "linkedin.getJobDetails" \in response.error.data.available_methods

\* C3: a request that omits a required parameter invokes no service
\* operation and is answered by a Failure with the ValidationError code,
\* not the internal-error code and message.
C3_MissingParamIsValidationError ==
    (/\ pc = "print"
     /\ Parsed
     /\ line.method \in {"linkedin.getProfile", "linkedin.generateResume",
                         "linkedin.getJobDetails", "linkedin.saveJob",
                         "linkedin.applyToJob", "linkedin.login"}
     /\ \E n \in RequiredParams[line.method] : n \notin DOMAIN line.params)
        => /\ svc_calls = 0
           /\ IsFailure(response)
           /\ response.error.code \in ValidationCodes
           /\ response.error.code # InternalErrorCode
           /\ response.error.message # [text |-> "Internal server error"]

\* C4: when the operation behind a request raises a taxonomy error of kind
\* K the Failure carries K's fixed code, which is not the internal-error
\* code; when it raises any other exception the Failure carries the
\* internal-error code and the stringified cause in its data.
C4_ErrorCodeMapping ==
    (pc = "print" /\ CompleteRequest /\ svc[1].t = "raise")
        => /\ IsFailure(response)
           /\ IF svc[1].exc.kind \in TaxonomyKinds
              THEN /\ response.error.code = TaxonomyStatus[svc[1].exc.kind]
                   /\ response.error.code # InternalErrorCode
              ELSE /\ response.error.code = InternalErrorCode
                   /\ response.error.data.error = Str(svc[1].exc)

C6_ResponseShape ==
    pc = "print"
        => /\ Cardinality(DOMAIN response \cap {"result", "error"}) = 1
           /\ response.jsonrpc = "2.0"
           /\ Parsed => response.id = line.id
           /\ response.id = None => (~Parsed \/ line.id = None)

C6_Witness ==
    /\ pc = "print"
    /\ Parsed
    /\ line.id = "r2"
    /\ line.method \in DispatchableMethods
    /\ response.id = "r2"
    /\ IsFailure(response)

\* C10: a search request whose operation raises RateLimitError(retry_after=5)
\* on its first call and succeeds on its second is answered by a Success
\* after exactly two invocations of the operation.
C10_SearchRetriedOnce ==
    (/\ pc = "print"
     /\ Parsed
     /\ line.method = "linkedin.searchJobs"
     /\ svc = <<Raises(RateLimitError(5)), Returns(JobRecord)>>)
        => /\ IsSuccess(response)
           /\ response.result = JobRecord
           /\ svc_calls = 2

(***************************************************************************)
(* utils/retry.py: the retry executor                                      *)
(*                                                                         *)
(* Time is counted in ticks of half the initial delay, so that delays and  *)
(* jitter amounts are integers; random.uniform(a, b) picks any tick in     *)
(* a..b.                                                                   *)
(***************************************************************************)

MaxAttempts == 3        \* largest max_attempts a config is given

\* exception classes raised by wrapped functions and their base classes
BaseOf ==
    ("Exception" :> None) @@
    ("OSError" :> "Exception") @@
    ("ConnectionError" :> "OSError") @@
    ("ConnectionResetError" :> "ConnectionError") @@
    ("TimeoutError" :> "OSError") @@
    ("ValueError" :> "Exception") @@
    ("LinkedInMCPError" :> "Exception") @@
    ("APIError" :> "LinkedInMCPError") @@
    ("AuthenticationError" :> "APIError") @@
    ("AuthorizationError" :> "APIError") @@
    ("NotFoundError" :> "APIError") @@
    ("ValidationError" :> "LinkedInMCPError")

RECURSIVE IsSubclass(_, _)
IsSubclass(k, c) ==
    \/ k = c
    \/ (BaseOf[k] # None /\ IsSubclass(BaseOf[k], c))

\* variant: every exception is caught, whatever retry_on says
Caught_Everything(e, retry_on) == TRUE

\* `except tuple(config.retry_on) as e`: e is an instance of a listed class
Caught(e, retry_on) == \E c \in retry_on : IsSubclass(e.kind, c)

\* retry_on of RetryConfig() / of NETWORK_ and LOGIN_RETRY_CONFIG / a
\* single class
RetryOnSets ==
    { {"Exception"}, {"ConnectionError", "TimeoutError"}, {"ValueError"} }

\* max_elapsed_time is None or 0 (no limit, written 0) or a number of ticks
RetryConfigs ==
    [ max_attempts      : 0..MaxAttempts,
      initial_delay     : {2},
      max_delay         : {3, 4},
      jitter_pct        : {0, 50},
      exponential_base  : {2},
      max_elapsed_time  : {0, 3},
      retry_on          : RetryOnSets ]

\* what the wrapped function does at its i-th invocation: return the value
\* i, or raise an exception object of some class
FuncOutcomes(i) ==
    { [t |-> "ok", value |-> i] } \cup
    { [t |-> "raise", exc |-> [kind |-> k, raised_at |-> i]] :
          k \in {"ConnectionResetError", "ValueError", "AuthenticationError"} }

FuncScripts(n) ==
    {f \in [1..n -> UNION {FuncOutcomes(i) : i \in 1..n}] :
        \A i \in 1..n : f[i] \in FuncOutcomes(i)}

\* time one invocation of the wrapped function may take
FuncDurations == {0, 1}

\* retry.py RetryError(message, last_exception)
RetryError(message, last) ==
    [kind |-> "RetryError", message |-> message, last_exception |-> last]

RECURSIVE Pow(_, _)
Pow(b, n) == IF n = 0 THEN 1 ELSE b * Pow(b, n - 1)

Min(a, b) == IF a <= b THEN a ELSE b

\* variant: the backoff is not capped
Backoff_Uncapped(cfg, n) ==
    cfg.initial_delay * Pow(cfg.exponential_base, n - 1)

\* backoff = min(initial_delay * exponential_base ** (attempt - 1), max_delay)
Backoff(cfg, n) ==
    Min(cfg.initial_delay * Pow(cfg.exponential_base, n - 1), cfg.max_delay)

\* the jittered delay: random.uniform(backoff - amount, backoff + amount)
\* with amount = backoff * jitter, or backoff itself when jitter is 0
JitteredBackoffs(cfg, n) ==
    LET backoff == Backoff(cfg, n)
        jitter_amount == (backoff * cfg.jitter_pct) \div 100
    IN  IF cfg.jitter_pct > 0
        THEN (backoff - jitter_amount)..(backoff + jitter_amount)
        ELSE {backoff}

\* variant: the limit is passed only when the elapsed time is beyond it
ElapsedExceeded_Beyond(cfg, t) == cfg.max_elapsed_time # 0 /\ t > cfg.max_elapsed_time

\* `config.max_elapsed_time and elapsed >= config.max_elapsed_time`
ElapsedExceeded(cfg, t) == cfg.max_elapsed_time # 0 /\ t >= cfg.max_elapsed_time

\* variant: the cap is compared one attempt too early
IsLastAttempt_OffByOne(cfg, n) == n + 1 >= cfg.max_attempts

\* `attempt >= config.max_attempts`
IsLastAttempt(cfg, n) == n >= cfg.max_attempts

DispatcherIdle ==
    /\ pc = "off"
    /\ line = NoLine
    /\ svc = <<>>
    /\ response = NoResponse
    /\ svc_calls = 0
    /\ handler_runs = 0

RetryInit ==
    /\ DispatcherIdle
    /\ LimiterIdle
    /\ AuthIdle
    /\ ClientIdle
    /\ CacheIdle
    /\ LoopIdle
    /\ HandlerIdle
    /\ TasksIdle
    /\ CallersIdle
    /\ FetchIdle
    /\ WritersIdle
    /\ flavour \in {"sync", "async"}
    /\ config \in RetryConfigs
    /\ op \in FuncScripts(MaxAttempts)
    /\ attempt = 1
    /\ rpc = IF config.max_attempts >= 1 THEN "call" ELSE "exhausted"
    /\ invocations = 0
    /\ sleeps = <<>>
    /\ elapsed = 0
    /\ last_exception = [kind |-> None]
    /\ outcome = [t |-> "none"]

\* One round of the for loop up to the sleep: call func; on a caught
\* exception test max_elapsed_time, then the attempt cap.
RetryAttempt(d) ==
    /\ rpc = "call"
    /\ invocations' = invocations + 1
    /\ elapsed' = elapsed + d
    /\ LET r == op[invocations + 1] IN
       IF r.t = "ok"
       THEN /\ outcome' = [t |-> "return", value |-> r.value]
            /\ rpc' = "done"
            /\ UNCHANGED last_exception
       ELSE IF ~Caught(r.exc, config.retry_on)
       THEN /\ outcome' = [t |-> "raise", exc |-> r.exc]
            /\ rpc' = "done"
            /\ UNCHANGED last_exception
       ELSE /\ last_exception' = r.exc
            /\ IF ElapsedExceeded(config, elapsed')
               THEN /\ outcome' = [t |-> "raise",
                                   exc |-> RetryError("Exceeded maximum elapsed time", r.exc)]
                    /\ rpc' = "done"
               ELSE IF IsLastAttempt(config, attempt)
               THEN /\ outcome' = [t |-> "raise",
                                   exc |-> RetryError("All attempts failed", r.exc)]
                    /\ rpc' = "done"
               ELSE /\ rpc' = "sleep"
                    /\ UNCHANGED outcome
    /\ UNCHANGED <<flavour, config, op, attempt, sleeps>>
    /\ UNCHANGED outside_retry

\* time.sleep(backoff) / await asyncio.sleep(backoff), then the next round
RetrySleep(backoff) ==
    /\ rpc = "sleep"
    /\ backoff \in JitteredBackoffs(config, attempt)
    /\ sleeps' = Append(sleeps, backoff)
    /\ elapsed' = elapsed + backoff
    /\ attempt' = attempt + 1
    /\ rpc' = IF attempt + 1 <= config.max_attempts THEN "call" ELSE "exhausted"
    /\ UNCHANGED <<flavour, config, op, invocations, last_exception, outcome>>
    /\ UNCHANGED outside_retry

\* the statement after the loop: raise RetryError("Unexpected error ...")
RetryLoopExit ==
    /\ rpc = "exhausted"
    /\ outcome' = [t |-> "raise",
                   exc |-> RetryError("Unexpected error in retry logic", last_exception)]
    /\ rpc' = "done"
    /\ UNCHANGED <<flavour, config, op, attempt, invocations, sleeps, elapsed,
                   last_exception>>
    /\ UNCHANGED outside_retry

_retry_sync_operation ==
    /\ flavour = "sync"
    /\ \/ \E d \in FuncDurations : RetryAttempt(d)
       \/ \E b \in 0..(2 * config.max_delay) : RetrySleep(b)
       \/ RetryLoopExit

_retry_async_operation ==
    /\ flavour = "async"
    /\ \/ \E d \in FuncDurations : RetryAttempt(d)
       \/ \E b \in 0..(2 * config.max_delay) : RetrySleep(b)
       \/ RetryLoopExit

RetryNext == _retry_sync_operation \/ _retry_async_operation

RetrySpec == RetryInit /\ [][RetryNext]_vars

(***************************************************************************)
(* Properties of the retry executor                                        *)
(***************************************************************************)

\* the error kind is one the config marks retryable: a listed class or a
\* subclass of one
IsRetryableKind(k, retry_on) == \E c \in retry_on : IsSubclass(k, c)

IsRetryableFailure(r) ==
    r.t = "raise" /\ IsRetryableKind(r.exc.kind, config.retry_on)

\* number of retryable failures the function starts with, from call i on
RECURSIVE LeadingFailures(_)
LeadingFailures(i) ==
    IF i > Len(op) \/ ~IsRetryableFailure(op[i])
    THEN 0
    ELSE 1 + LeadingFailures(i + 1)

\* no test of max_elapsed_time has fired or would fire now
TimeLimitNotReached ==
    config.max_elapsed_time = 0 \/ elapsed < config.max_elapsed_time

\* C7: while max_elapsed_time is not reached, k < max_attempts retryable
\* failures followed by a success make the executor return that success
\* after exactly k+1 invocations; a function that fails retryably on every
\* call makes it raise after exactly max_attempts invocations.
C7_RetryCounts ==
    (rpc = "done" /\ config.max_attempts >= 1 /\ TimeLimitNotReached)
        => LET k == LeadingFailures(1) IN
           /\ (k < config.max_attempts /\ op[k + 1].t = "ok")
                 => /\ outcome = [t |-> "return", value |-> op[k + 1].value]
                    /\ invocations = k + 1
                    /\ Len(sleeps) = k
           /\ k >= config.max_attempts
                 => /\ outcome.t = "raise"
                    /\ invocations = config.max_attempts

C7_Witness ==
    /\ rpc = "done"
    /\ config.max_attempts = 3
    /\ LeadingFailures(1) = 2
    /\ invocations = 3
    /\ outcome = [t |-> "return", value |-> 3]

\* C8: an error of a kind that is not retryable, raised at any attempt, ends
\* the executor at once: no sleep follows, no further invocation, and the
\* error itself is what the executor raises; on the first call that makes
\* exactly one invocation.
C8_NonRetryablePropagates ==
    \A i \in 1..Len(op) :
        (/\ invocations = i
         /\ op[i].t = "raise"
         /\ ~IsRetryableKind(op[i].exc.kind, config.retry_on))
            => /\ rpc = "done"
               /\ outcome = [t |-> "raise", exc |-> op[i].exc]
               /\ Len(sleeps) = i - 1

C8_Witness ==
    /\ rpc = "done"
    /\ config.retry_on = {"ConnectionError", "TimeoutError"}
    /\ invocations = 2
    /\ op[1].t = "raise" /\ op[1].exc.kind = "ConnectionResetError"
    /\ op[2].t = "raise" /\ op[2].exc.kind = "ValueError"
    /\ outcome = [t |-> "raise", exc |-> op[2].exc]
    /\ Len(sleeps) = 1

\* C9: with max_attempts = 1 a function that fails with a retryable error is
\* invoked once and the executor raises that error itself, not an error
\* wrapping it.
C9_SingleAttemptRaisesOriginal ==
    (rpc = "done" /\ config.max_attempts = 1 /\ IsRetryableFailure(op[1]))
        => /\ invocations = 1
           /\ outcome = [t |-> "raise", exc |-> op[1].exc]

\* a step in which the function is invoked at an attempt below max_attempts
\* and fails with an error the config retries
RetryableFailureBelowCap ==
    /\ rpc = "call"
    /\ invocations' = invocations + 1
    /\ attempt < config.max_attempts
    /\ op[invocations'].t = "raise"
    /\ IsRetryableKind(op[invocations'].exc.kind, config.retry_on)

\* C31: on a retryable failure at an attempt below max_attempts, if the time
\* elapsed since the start is at least max_elapsed_time the executor raises
\* the retry error that wraps this failure, without a sleep and without a
\* further invocation; otherwise, and always when max_elapsed_time is unset,
\* it goes on to the sleep before the next attempt
C31_ElapsedTimeEndsRetrying ==
    [][ /\ RetryableFailureBelowCap =>
             IF config.max_elapsed_time # 0 /\ elapsed' >= config.max_elapsed_time
             THEN /\ rpc' = "done"
                  /\ outcome' = [t |-> "raise",
                                 exc |-> RetryError("Exceeded maximum elapsed time",
                                                    op[invocations'].exc)]
                  /\ sleeps' = sleeps
             ELSE rpc' = "sleep" /\ outcome' = outcome
        /\ rpc = "done" => (invocations' = invocations /\ sleeps' = sleeps) ]_vars

\* the time limit ended a call after a sleep, at an attempt below the cap
C31_Witness ==
    /\ rpc = "done"
    /\ attempt < config.max_attempts
    /\ Len(sleeps) >= 1
    /\ outcome.t = "raise"
    /\ outcome.exc.kind = "RetryError"
    /\ outcome.exc.message = "Exceeded maximum elapsed time"
    /\ outcome.exc.last_exception = op[invocations].exc
    /\ elapsed = config.max_elapsed_time

\* d = min(initial_delay * base^(n-1), max_delay), the delay after the n-th
\* failed attempt before jitter
NominalDelay(n) ==
    LET grown == config.initial_delay * Pow(config.exponential_base, n - 1) IN
    IF grown <= config.max_delay THEN grown ELSE config.max_delay

\* C32: the sleep after failed attempt n lies between d * (1 - jitter) and
\* d * (1 + jitter) with d = min(initial_delay * base^(n-1), max_delay): it
\* is never negative, and d never exceeds max_delay
C32_SleepWithinJitter ==
    \A n \in DOMAIN sleeps :
        /\ NominalDelay(n) <= config.max_delay
        /\ 100 * sleeps[n] >= NominalDelay(n) * (100 - config.jitter_pct)
        /\ 100 * sleeps[n] <= NominalDelay(n) * (100 + config.jitter_pct)
        /\ sleeps[n] >= 0

\* the second sleep is cut down to max_delay and jittered below it
C32_Witness ==
    /\ Len(sleeps) = 2
    /\ config.initial_delay * config.exponential_base > config.max_delay
    /\ config.jitter_pct > 0
    /\ sleeps[1] > config.initial_delay
    /\ sleeps[2] < config.max_delay

(***************************************************************************)
(* utils/rate_limiter.py: RateLimiter                                      *)
(*                                                                         *)
(* Time is counted in whole ticks.  The limiter is shared by callers that  *)
(* enter it directly (`async with limiter`) and by one caller that goes    *)
(* through the wrapper built by __call__.                                  *)
(***************************************************************************)

MaxRequests == 2        \* largest max_requests a limiter is given
MaxClock == 6           \* the clock is observed up to this tick

Max(a, b) == IF a >= b THEN a ELSE b

\* RateLimiter(max_requests, window, retry_attempts, initial_backoff,
\* max_backoff, jitter); jitter is written in percent
LimiterConfigs ==
    [ max_requests    : 1..MaxRequests,
      window          : {2, 3},
      retry_attempts  : {0, 1, 2},
      initial_backoff : {1},
      max_backoff     : {2},
      jitter_pct      : {0, 50} ]

\* RateLimitExceeded(reset_time, limit, window); its constructor reads
\* time.time() once more, at time_now
RateLimitExceeded(reset_time, limit, window, time_now) ==
    [kind |-> "RateLimitExceeded", reset_time |-> reset_time, limit |-> limit,
     window |-> window, retry_after |-> Max(0, reset_time - time_now)]

\* variant: a timestamp exactly one window old is kept
_cleanup_old_requests_KeepsBoundary(reqs, l, t) ==
    LET cutoff == t - l.window
        Keep(x) == x >= cutoff
    IN  SelectSeq(reqs, Keep)

\* cutoff = now - self.window; self.requests = [t for t in ... if t > cutoff]
_cleanup_old_requests(reqs, l, t) ==
    LET cutoff == t - l.window
        Keep(x) == x > cutoff
    IN  SelectSeq(reqs, Keep)

\* variant: the budget is compared with > and so is exceeded by one
WindowFull_OffByOne(reqs, l) == Len(reqs) > l.max_requests

\* `len(self.requests) >= self.max_requests`
WindowFull(reqs, l) == Len(reqs) >= l.max_requests

\* _acquire called when time.time() is t; t2 is the time read by the
\* constructor of RateLimitExceeded.  The field requests is self.requests
\* when the call ends.
_acquire(reqs, l, t, t2) ==
    LET pruned == _cleanup_old_requests(reqs, l, t) IN
    IF WindowFull(pruned, l)
    THEN LET oldest_request == pruned[1]
             reset_time == oldest_request + l.window
         IN  [t |-> "raise",
              exc |-> RateLimitExceeded(reset_time, l.max_requests, l.window, t2),
              requests |-> pruned]
    ELSE [t |-> "return", value |-> t, requests |-> Append(pruned, t)]

\* hash(str(attempt)) % 100: fixed by the interpreter's hash seed
HashValues == {0, 50, 99}

\* _get_backoff_time(attempt) with h = hash(str(attempt)) % 100
_get_backoff_time(l, n, h) ==
    LET backoff == Min(l.initial_backoff * Pow(2, n), l.max_backoff)
        jitter_amount == (backoff * l.jitter_pct) \div 100
    IN  backoff + ((2 * jitter_amount * h) \div 100) - jitter_amount

\* what the wrapped function does when it is called
WrappedResults ==
    { [t |-> "return", value |-> "done"],
      [t |-> "raise", exc |-> [kind |-> "ValueError"]] }

LimiterInit ==
    /\ DispatcherIdle
    /\ RetryIdle
    /\ AuthIdle
    /\ ClientIdle
    /\ CacheIdle
    /\ LoopIdle
    /\ HandlerIdle
    /\ TasksIdle
    /\ CallersIdle
    /\ FetchIdle
    /\ WritersIdle
    /\ lim \in LimiterConfigs
    /\ requests = <<>>
    /\ clock = 0
    /\ now = 0
    /\ acquired = [t |-> "none"]
    /\ wpc = "idle"
    /\ wattempt = 0
    /\ func_calls = 0
    /\ woutcome = [t |-> "none"]

\* `async with limiter:` -- __aenter__ awaits _acquire when the clock shows t
__aenter__(t, t2) ==
    /\ wpc # "off"
    /\ clock <= t /\ t <= t2 /\ t2 <= MaxClock
    /\ LET a == _acquire(requests, lim, t, t2) IN
          /\ requests' = a.requests
          /\ acquired' = [x \in DOMAIN a \ {"requests"} |-> a[x]]
          /\ now' = t
          /\ clock' = IF a.t = "raise" THEN t2 ELSE t
    /\ UNCHANGED <<lim, wpc, wattempt, func_calls, woutcome>>
    /\ UNCHANGED outside_limiter

\* One round of the wrapper's loop up to the sleep, the first round being
\* the call of the wrapper: _acquire, then the wrapped function if admitted;
\* on RateLimitExceeded leave the loop if this was the last attempt.
wrapper_attempt(t, t2, r) ==
    /\ wpc \in {"idle", "done", "acquire"}
    /\ clock <= t /\ t <= t2 /\ t2 <= MaxClock
    /\ LET a == _acquire(requests, lim, t, t2)
           n == IF wpc = "acquire" THEN wattempt ELSE 0
       IN
          /\ requests' = a.requests
          /\ acquired' = [x \in DOMAIN a \ {"requests"} |-> a[x]]
          /\ now' = t
          /\ clock' = IF a.t = "raise" THEN t2 ELSE t
          /\ wattempt' = n
          /\ IF a.t = "return"
             THEN /\ func_calls' = 1
                  /\ woutcome' = r
                  /\ wpc' = "done"
             ELSE /\ func_calls' = 0
                  /\ IF n = lim.retry_attempts
                     THEN \* break; raise last_exception
                          /\ woutcome' = [t |-> "raise", exc |-> a.exc]
                          /\ wpc' = "done"
                     ELSE /\ woutcome' = [t |-> "none"]
                          /\ wpc' = "sleep"
    /\ UNCHANGED lim
    /\ UNCHANGED outside_limiter

\* await asyncio.sleep(backoff), then the next round
wrapper_sleep(h) ==
    /\ wpc = "sleep"
    /\ LET backoff == _get_backoff_time(lim, wattempt, h) IN
          /\ clock + backoff <= MaxClock
          /\ clock' = clock + backoff
    /\ wattempt' = wattempt + 1
    /\ wpc' = "acquire"
    /\ UNCHANGED <<lim, requests, now, acquired, func_calls, woutcome>>
    /\ UNCHANGED outside_limiter

LimiterNext ==
    \/ \E t, t2 \in 0..MaxClock : __aenter__(t, t2)
    \/ \E t, t2 \in 0..MaxClock, r \in WrappedResults : wrapper_attempt(t, t2, r)
    \/ \E h \in HashValues : wrapper_sleep(h)

LimiterSpec == LimiterInit /\ [][LimiterNext]_vars

(***************************************************************************)
(* Properties of the rate limiter                                          *)
(***************************************************************************)

\* a step in which _acquire ran and changed what the limiter shows
AcquireStep == <<now, acquired, requests>>' # <<now, acquired, requests>>

\* positions of the timestamps recorded within the window that ends at t
WithinWindow(t) == {i \in DOMAIN requests : requests[i] > t - lim.window}

\* the oldest of the timestamps at the positions S
Oldest(S) == requests[CHOOSE i \in S : \A j \in S : requests[i] <= requests[j]]

\* C11: an acquire that finds max_requests admissions within the window is
\* rejected with reset time = oldest such timestamp + window and
\* retry_after = reset time - current time, cut off at 0; any other acquire
\* is admitted, in particular the first acquire made at or after the reset
\* time of the rejection before it.
C11_RejectThenAdmit ==
    [][ AcquireStep =>
          /\ IF Cardinality(WithinWindow(now')) >= lim.max_requests
             THEN /\ acquired'.t = "raise"
                  /\ acquired'.exc.reset_time
                        = Oldest(WithinWindow(now')) + lim.window
                  /\ acquired'.exc.retry_after
                        = Max(0, acquired'.exc.reset_time - clock')
                  /\ acquired'.exc.retry_after >= 0
             ELSE acquired' = [t |-> "return", value |-> now']
          /\ (acquired.t = "raise" /\ now' >= acquired.exc.reset_time)
                => acquired'.t = "return" ]_vars

C11_Witness ==
    /\ lim.max_requests = 2
    /\ acquired.t = "raise"
    /\ Len(requests) = 2
    /\ requests[1] < requests[2]
    /\ acquired.exc.reset_time = requests[1] + lim.window
    /\ acquired.exc.retry_after > 0

\* C12: at every moment at most max_requests recorded timestamps are newer
\* than current time - window; after every acquire no recorded timestamp is
\* as old as the window that ended at that acquire; the timestamps are in
\* non-decreasing order; a rejected acquire adds no timestamp.
C12_WindowInvariant ==
    /\ [](/\ Cardinality(WithinWindow(clock)) <= lim.max_requests
          /\ acquired.t # "none" =>
                (/\ WithinWindow(now) = DOMAIN requests
                 /\ Len(requests) <= lim.max_requests)
          /\ \A i, j \in DOMAIN requests : i <= j => requests[i] <= requests[j])
    /\ [][ (AcquireStep /\ acquired'.t = "raise") =>
              /\ Len(requests') <= Len(requests)
              /\ \A i \in DOMAIN requests' :
                    \E j \in DOMAIN requests : requests'[i] = requests[j] ]_vars

C12_Witness ==
    /\ lim.max_requests = 2
    /\ lim.window = 2
    /\ acquired.t = "raise"
    /\ now = 3
    /\ requests = <<2, 3>>

\* C13: a call through the wrapper of a limiter that is given retries, even
\* one that finds the window full, is not rejected: it ends with the wrapped
\* function invoked exactly once and never with a rate-limit error.
C13_QueuedCallerAdmitted ==
    (wpc = "done" /\ lim.retry_attempts >= 1)
        => /\ func_calls = 1
           /\ woutcome.t = "raise" => woutcome.exc.kind # "RateLimitExceeded"

(***************************************************************************)
(* api/auth.py: LinkedInAuth, the session manager                          *)
(*                                                                         *)
(* datetime.now() is counted in whole days.  A session file is absent,     *)
(* unreadable, or holds a pickled record with its timestamp.               *)
(***************************************************************************)

MaxDay == 7             \* the calendar is observed up to this day

\* timedelta(days=7) of _load_session
SessionMaxAgeDays == 7

\* largest max_retries of _browser_login_with_retry: its default
BrowserMaxRetries == 3

Usernames == {"alice", "bob"}

AbsentFile == [kind |-> "absent"]
CorruptFile == [kind |-> "corrupt"]

\* session_data = {"timestamp": datetime.now(), "cookies": ..., "headers": ...}
SessionData(t, cookies) == [kind |-> "record", timestamp |-> t, cookies |-> cookies]

\* LinkedInSessionState(logged_in=False)
LoggedOutState == [logged_in |-> FALSE, username |-> None, cookies |-> None]

\* LinkedInSessionState(logged_in=True, username=..., cookies=..., headers=...)
LoggedInState(username, cookies) ==
    [logged_in |-> TRUE, username |-> username, cookies |-> cookies]

\* variant: the age test is <= 7 days
_load_session_SevenDaysValid(files, username, t) ==
    LET f == files[username] IN
    IF f.kind = "record" /\ t - f.timestamp <= SessionMaxAgeDays
    THEN [found |-> TRUE, session_data |-> f]
    ELSE [found |-> FALSE]

\* _load_session: the record if the file exists, unpickles and is less than
\* 7 days old; None (found = FALSE) otherwise, also when reading fails
_load_session(files, username, t) ==
    LET f == files[username] IN
    IF f.kind = "record" /\ t - f.timestamp < SessionMaxAgeDays
    THEN [found |-> TRUE, session_data |-> f]
    ELSE [found |-> FALSE]

\* outcomes of writing a session file: written; open() failed and the file
\* is as before; open() truncated the file and pickle.dump failed
WriteOutcomes == {"ok", "open_failed", "dump_failed"}

\* open(session_path, "wb") followed by pickle.dump
\* variant: a write that reports success leaves the file as it was
WriteFile_NeverWrites(files, username, data, w) ==
    CASE w = "ok"          -> files
      [] w = "open_failed" -> files
      [] w = "dump_failed" -> [files EXCEPT ![username] = CorruptFile]

WriteFile(files, username, data, w) ==
    CASE w = "ok"          -> [files EXCEPT ![username] = data]
      [] w = "open_failed" -> files
      [] w = "dump_failed" -> [files EXCEPT ![username] = CorruptFile]

\* _save_session: a failed write is logged and swallowed
_save_session(files, username, cookies, t, w) ==
    WriteFile(files, username, SessionData(t, cookies), w)

\* outcomes of one _browser_login: logged in and the cookies written; an
\* exception after Chrome was started; uc.Chrome(...) itself raised
BrowserOutcomes == {"ok", "failed", "no_chrome"}

\* what a call did, in order: "load" _load_session, "api" Linkedin(...),
\* "browser" _browser_login, "save" and "save_failed" _save_session, "sleep"
\* time.sleep(secs)
Ev(e, secs) == [e |-> e, secs |-> secs]

\* what _save_session logs: "Session saved successfully", or "Failed to
\* save session" when the write raised
Saved(w) == Ev(IF w = "ok" THEN "save" ELSE "save_failed", 0)

\* retry_delay = 5 * attempt
BrowserRetryDelay(n) == 5 * n

\* self.driver = uc.Chrome(options=options): the driver held before is
\* dropped without quit()
StartChrome(st) ==
    [st EXCEPT !.driver = "driver",
               !.dropped = st.dropped \/ st.driver # None]

\* if self.driver: self.driver.quit(); self.driver = None
QuitDriver(st) == [st EXCEPT !.driver = None]

\* variant: the loop sleeps after every failed attempt, the last included
SleepsAfter_EveryFailure(n) == TRUE

\* if attempt < max_retries: time.sleep(retry_delay)
SleepsAfter(n) == n < BrowserMaxRetries

\* attempt n of _browser_login_with_retry on the manager state st:
\* _browser_login, then on success cookies, _save_session and the session
\* state; on failure the cleanup of the driver and the delay
BrowserAttempt(st, username, t, o, w, n) ==
    LET tried == [st EXCEPT !.browser_logins = st.browser_logins + 1,
                            !.trace = Append(st.trace, Ev("browser", 0))]
    IN
    IF o = "ok"
    THEN LET up == StartChrome(tried) IN
         [up EXCEPT
            !.files = _save_session(
                          WriteFile(st.files, username, SessionData(t, "browser"), "ok"),
                          username, "browser", t, w),
            !.session_state = LoggedInState(username, "browser"),
            !.result = [t |-> "return", value |-> LoggedInState(username, "browser")],
            !.trace = Append(up.trace, Saved(w))]
    ELSE LET cleaned == QuitDriver(IF o = "no_chrome" THEN tried
                                   ELSE StartChrome(tried))
         IN  IF SleepsAfter(n)
             THEN [cleaned EXCEPT
                      !.trace = Append(cleaned.trace, Ev("sleep", BrowserRetryDelay(n)))]
             ELSE cleaned

\* _browser_login_with_retry from attempt n on; b[n] is what attempt n meets
RECURSIVE _browser_login_with_retry(_, _, _, _, _, _)
_browser_login_with_retry(st, username, t, b, w, n) ==
    IF n > BrowserMaxRetries
    THEN [st EXCEPT !.result =
            [t |-> "raise",
             exc |-> PyException("Exception", "All browser login attempts failed")]]
    ELSE LET next == BrowserAttempt(st, username, t, b[n], w, n) IN
         IF b[n] = "ok"
         THEN next
         ELSE _browser_login_with_retry(next, username, t, b, w, n + 1)

\* outcomes of Linkedin(username, password, ...): a client; an error whose
\* text contains "Challenge"; any other error
ApiOutcomes == {"ok", "challenge", "error"}

\* login(username, password, force_new) on the manager state st at time t;
\* env tells what the network and the file system do
login(st, username, force_new, t, env) ==
    LET loaded == _load_session(st.files, username, t)
        read == IF force_new THEN <<>> ELSE <<Ev("load", 0)>>
    IN
    IF ~force_new /\ loaded.found
    THEN [st EXCEPT !.result = [t |-> "return", value |-> loaded.session_data],
                    !.adopted = TRUE,
                    !.trace = read]
    ELSE IF env.api = "ok"
    THEN [st EXCEPT
            !.api_client = "client",
            !.session_state = LoggedInState(username, "api"),
            !.files = _save_session(st.files, username, "api", t, env.write),
            !.result = [t |-> "return", value |-> LoggedInState(username, "api")],
            !.api_logins = 1,
            !.trace = read \o <<Ev("api", 0), Saved(env.write)>>]
    ELSE _browser_login_with_retry([st EXCEPT !.api_logins = 1,
                                              !.trace = Append(read, Ev("api", 0))],
                                   username, t, env.browser, env.write, 1)

\* variant: the browser driver is not released
logout_KeepsDriver(st) ==
    [st EXCEPT
        !.api_client = None,
        !.session_state = LoggedOutState,
        !.result = [t |-> "return",
                    value |-> [success |-> TRUE, message |-> "Logged out successfully"]]]

\* logout()
logout(st) ==
    [QuitDriver(st) EXCEPT
        !.api_client = None,
        !.session_state = LoggedOutState,
        !.result = [t |-> "return",
                    value |-> [success |-> TRUE, message |-> "Logged out successfully"]]]

\* check_session(); probe is what _is_browser_session_valid finds
check_session(st, probe) ==
    LET logged_in == st.api_client # None \/ (st.driver # None /\ probe)
        state == [st.session_state EXCEPT !.logged_in = logged_in]
    IN  [st EXCEPT !.session_state = state,
                   !.result = [t |-> "return", value |-> state]]

\* what the attempts of a browser login meet, listed up to the first
\* success.  After a failed attempt no driver is held, so that a Chrome that
\* does not start differs from any other failure at the first attempt only.
BrowserScripts ==
    {b \in [1..BrowserMaxRetries -> BrowserOutcomes] :
        /\ \A i \in 2..BrowserMaxRetries : b[i] # "no_chrome"
        /\ b[1] = "no_chrome" => \A i, j \in 2..BrowserMaxRetries : b[i] = b[j]
        /\ \A i, j \in 1..BrowserMaxRetries : (i < j /\ b[i] = "ok") => b[j] = "ok"}

\* what a login meets: the parts it does not get to are left at "ok"; a
\* challenge leads to the same call as any other error and is listed with
\* one browser script
LoginEnvs ==
    {env \in [api : ApiOutcomes, browser : BrowserScripts, write : WriteOutcomes] :
        /\ env.api = "ok" => env.browser = [i \in 1..BrowserMaxRetries |-> "ok"]
        /\ env.api = "challenge" =>
              (env.browser = [i \in 1..BrowserMaxRetries |-> "ok"] /\ env.write = "ok")
        /\ (\A i \in 1..BrowserMaxRetries : env.browser[i] # "ok") => env.write = "ok"}

\* the manager as a call finds it
Manager ==
    [api_client |-> api_client, driver |-> driver, dropped |-> dropped,
     session_state |-> session_state, files |-> session_files,
     result |-> [t |-> "none"], api_logins |-> 0, browser_logins |-> 0,
     adopted |-> FALSE, trace |-> <<>>]

AuthOp(name, username, force_new, r) ==
    [name |-> name, username |-> username, force_new |-> force_new,
     result |-> r.result, api_logins |-> r.api_logins,
     browser_logins |-> r.browser_logins, adopted |-> r.adopted,
     trace |-> r.trace]

\* the manager as the call that computed r leaves it
Commit(name, username, force_new, r) ==
    /\ api_client' = r.api_client
    /\ driver' = r.driver
    /\ dropped' = r.dropped
    /\ session_state' = r.session_state
    /\ session_files' = r.files
    /\ auth_op' = AuthOp(name, username, force_new, r)
    /\ UNCHANGED today
    /\ UNCHANGED outside_auth

\* LinkedInAuth(): nothing held, logged out; the session directory holds
\* what earlier runs left there
AuthInit ==
    /\ DispatcherIdle
    /\ RetryIdle
    /\ LimiterIdle
    /\ ClientIdle
    /\ CacheIdle
    /\ LoopIdle
    /\ HandlerIdle
    /\ TasksIdle
    /\ CallersIdle
    /\ FetchIdle
    /\ WritersIdle
    /\ api_client = None
    /\ driver = None
    /\ dropped = FALSE
    /\ session_state = LoggedOutState
    /\ session_files \in [Usernames -> {AbsentFile, CorruptFile, SessionData(0, "api")}]
    /\ today = 0
    /\ auth_op = AuthOp("none", None, FALSE, Manager)

Login(username, force_new, env) ==
    /\ auth_op.name # "off"
    /\ Commit("login", username, force_new,
              login(Manager, username, force_new, today, env))

Logout ==
    /\ auth_op.name # "off"
    /\ Commit("logout", None, FALSE, logout(Manager))

CheckSession(probe) ==
    /\ auth_op.name # "off"
    /\ Commit("check_session", None, FALSE, check_session(Manager, probe))

\* midnight
DayPasses ==
    /\ auth_op.name # "off"
    /\ today < MaxDay
    /\ today' = today + 1
    /\ UNCHANGED <<api_client, driver, dropped, session_state, session_files,
                   auth_op>>
    /\ UNCHANGED outside_auth

AuthNext ==
    \/ \E u \in Usernames, f \in BOOLEAN, env \in LoginEnvs : Login(u, f, env)
    \/ Logout
    \/ \E probe \in BOOLEAN : CheckSession(probe)
    \/ DayPasses

AuthSpec == AuthInit /\ [][AuthNext]_vars

(***************************************************************************)
(* Properties of the session manager                                       *)
(***************************************************************************)

\* a step that is a call of login
LoginStep == auth_op'.name = "login" /\ today' = today

\* the session file of u holds a record younger than 7 days
YoungRecord(u) ==
    /\ session_files[u].kind = "record"
    /\ today - session_files[u].timestamp < SessionMaxAgeDays

\* the call made no programmatic login and no browser login
NoNetworkLogin(o) == o.api_logins = 0 /\ o.browser_logins = 0

\* C14: a login without force_new that finds a session record of its
\* identity younger than 7 days makes no programmatic and no browser login;
\* a login with force_new, or one that finds the record 7 or more days old
\* or finds none, attempts a network login.
C14_CachedLoginNoNetwork ==
    [][ LoginStep =>
          IF ~auth_op'.force_new /\ YoungRecord(auth_op'.username)
          THEN NoNetworkLogin(auth_op')
          ELSE auth_op'.api_logins + auth_op'.browser_logins >= 1 ]_vars

C14_Witness ==
    /\ auth_op.name = "login"
    /\ auth_op.adopted
    /\ NoNetworkLogin(auth_op)
    /\ session_files[auth_op.username].kind = "record"
    /\ today - session_files[auth_op.username].timestamp = SessionMaxAgeDays - 1

\* C15: after a login that adopted a cached record the session state
\* reports logged in with the identity passed to login, and a check_session
\* that follows at once reports logged in.
C15_AdoptedSessionIsLoggedIn ==
    /\ []((auth_op.name = "login" /\ auth_op.adopted)
             => /\ session_state.logged_in
                /\ session_state.username = auth_op.username)
    /\ [][ (/\ auth_op.name = "login" /\ auth_op.adopted
            /\ auth_op'.name = "check_session")
              => auth_op'.result.value.logged_in ]_vars

\* C16: after every logout no API client and no driver is held, the session
\* state is the logged-out one and the call returned success; a logout
\* changes no session file; a logout that follows a logout changes nothing;
\* and a login without force_new that follows a logout and finds a record
\* younger than 7 days adopts it without a network login.
C16_LogoutIdempotent ==
    /\ [](auth_op.name = "logout"
             => /\ api_client = None
                /\ driver = None
                /\ session_state = LoggedOutState
                /\ auth_op.result.t = "return"
                /\ auth_op.result.value.success)
    /\ [][ (auth_op'.name = "logout" /\ today' = today)
              => session_files' = session_files ]_vars
    /\ [][ (auth_op.name = "logout" /\ auth_op'.name = "logout" /\ today' = today)
              => avars' = avars ]_vars
    /\ [][ (/\ auth_op.name = "logout"
            /\ LoginStep
            /\ ~auth_op'.force_new
            /\ YoungRecord(auth_op'.username))
              => (auth_op'.adopted /\ NoNetworkLogin(auth_op')) ]_vars

C16_Witness ==
    /\ auth_op.name = "logout"
    /\ api_client = None
    /\ driver = None
    /\ ~session_state.logged_in
    /\ \E u \in Usernames : session_files[u] = SessionData(today, "browser")

\* the positions of the trace tr at which e happened
At(tr, e) == {i \in DOMAIN tr : tr[i].e = e}

\* the positions at which _save_session was called
Saves(tr) == At(tr, "save") \cup At(tr, "save_failed")

\* the trace of a login from its first network step on
Network(tr) ==
    IF tr # <<>> /\ tr[1].e = "load" THEN Tail(tr) ELSE tr

\* the steps of a login that adopted nothing are in order: the programmatic
\* login once and first; browser logins only if it failed, at most
\* max_retries, none after a success; a delay before every browser login but
\* the first, growing with the attempt number, and none after the last
OrderedLogin(tr) ==
    LET net == Network(tr) IN
    /\ net # <<>> /\ net[1].e = "api"
    /\ At(net, "api") = {1}
    /\ At(net, "load") = {}
    /\ Cardinality(At(net, "browser")) <= BrowserMaxRetries
    /\ \A i \in Saves(net) : i = Len(net)
    /\ \A i \in At(net, "browser") : net[i - 1].e \in {"api", "sleep"}
    /\ \A i \in At(net, "sleep") :
          /\ net[i - 1].e = "browser"
          /\ i < Len(net) /\ net[i + 1].e = "browser"
          /\ net[i].secs > 0
    /\ \A i, j \in At(net, "sleep") : i < j => net[i].secs < net[j].secs

\* C33: a login that does not adopt a cached session attempts the
\* programmatic login exactly once and first, the browser login only after
\* it failed, at most max_retries times and not after a success, with a
\* growing delay before each further attempt and none after the last; when
\* every attempt fails the login raises and leaves the session state as it
\* was
C33_LoginOrder ==
    [][ (LoginStep /\ ~auth_op'.adopted) =>
          /\ OrderedLogin(auth_op'.trace)
          /\ auth_op'.api_logins = 1
          /\ auth_op'.result.t = "raise"
                <=> (/\ auth_op'.browser_logins = BrowserMaxRetries
                     /\ Saves(auth_op'.trace) = {})
          /\ auth_op'.result.t = "raise" => session_state' = session_state ]_vars

\* a login that read the cache, failed programmatically, failed in the
\* browser three times with delays of 5 and 10 seconds, and raised
C33_Witness ==
    /\ auth_op.name = "login"
    /\ auth_op.result.t = "raise"
    /\ auth_op.trace = <<Ev("load", 0), Ev("api", 0), Ev("browser", 0),
                         Ev("sleep", 5), Ev("browser", 0), Ev("sleep", 10),
                         Ev("browser", 0)>>

\* the login read the session cache first, if it read it at all, and it read
\* it unless force_new was set
LoadFirst(o) ==
    /\ At(o.trace, "load") = (IF o.force_new THEN {} ELSE {1})

\* the step is a login that returned after a programmatic or browser login
NetworkLoginReturned ==
    /\ LoginStep
    /\ ~auth_op'.adopted
    /\ auth_op'.result.t = "return"

\* the session file of u holds a record stamped today, which a login on the
\* same day and on each of the six days after it adopts
FreshRecord(files, u) ==
    /\ files[u].kind = "record"
    /\ files[u].timestamp = today
    /\ \A t \in today..(today + SessionMaxAgeDays - 1) :
          _load_session(files, u, t).found

C38_UsernameIsLastLogin ==
    (/\ auth_op.name = "login"
     /\ auth_op.result.t = "return"
     /\ session_state.logged_in)
        => session_state.username = auth_op.username

\* C39: whenever the session state reports logged in, an API client or a
\* browser driver is held, also after a re-login that failed and whose
\* cleanup quit the driver
C39_LoggedInHoldsClientOrDriver ==
    session_state.logged_in => (api_client # None \/ driver # None)

\* C40: a browser login never replaces a driver it holds without quitting
\* it, so that no driver this manager started is left running unheld, and
\* after logout no driver is held
C40_NoDriverLeaked ==
    /\ ~dropped
    /\ auth_op.name = "logout" => driver = None

(***************************************************************************)
(* api/clients/linkedin.py: token handling of LinkedInAPIClient, and       *)
(* utils/auth.py: refresh_token_if_needed                                  *)
(*                                                                         *)
(* datetime.utcnow() is counted in ticks of twenty minutes.  The decorator *)
(* expression `retry(config=DEFAULT_RETRY_CONFIG)` above                   *)
(* refresh_access_token names a keyword utils.retry.retry does not have;   *)
(* the method is modelled as its body.                                     *)
(***************************************************************************)

MaxUtc == 4             \* the clock is observed up to this tick

\* response_data.get('expires_in', 3600): an hour, in ticks
DefaultExpiresIn == 3

\* a member the JSON response does not have
Missing == -1

\* self._session_state is None
NoSessionState == [present |-> FALSE]

\* LinkedInSessionState(access_token=, expires_at=, refresh_token=)
TokenState(access_token, expires_at, refresh_token) ==
    [present |-> TRUE, access_token |-> access_token,
     expires_at |-> expires_at, refresh_token |-> refresh_token]

\* an exception of the taxonomy raised with status_code=status
WithStatus(e, status) == [e EXCEPT !.status = status]

\* variant: a session with an access token counts as authenticated whatever
\* its expiry
is_authenticated_IgnoresExpiry(s, t) ==
    s.present /\ Truthy(s.access_token)

\* is_authenticated(): a session with an access token that is not expired
is_authenticated(s, t) ==
    /\ s.present
    /\ Truthy(s.access_token)
    /\ ~(s.expires_at < t)

\* answers of the token endpoint to the refresh POST
RefreshResponses ==
    [kind : {"ok"}, status : {200}, access_token : {None, "at1", "at2"},
     expires_in : {Missing, 1}, refresh_token : {None, "rt1"}]
    \cup
    [kind : {"ok"}, status : {400}, access_token : {None},
     expires_in : {Missing}, refresh_token : {None}]
    \cup
    [kind : {"client_error"}, status : {0}, access_token : {None},
     expires_in : {Missing}, refresh_token : {None}]

\* variant: the refresh token is taken from the response alone
NewRefreshToken_FromResponseOnly(resp, refresh_token) == resp.refresh_token

\* response_data.get('refresh_token', refresh_token)
NewRefreshToken(resp, refresh_token) ==
    IF resp.refresh_token # None THEN resp.refresh_token ELSE refresh_token

\* the body of refresh_access_token() called without argument at time t;
\* session is self._session_state when the call ends, value names what is
\* returned (here the new session state);
\* events lists what happened in order: "refresh_access_token" the call of
\* this method, "post_token" the request sent to the token endpoint
refresh_access_token(s, cfg, t, resp) ==
    LET refresh_token == IF s.present THEN s.refresh_token ELSE None IN
    IF ~Truthy(refresh_token)
    THEN [t |-> "raise", session |-> s, events |-> <<"refresh_access_token">>,
          exc |-> TaxonomyError("AuthenticationError", "No refresh token available")]
    ELSE IF ~cfg.credentials
    THEN [t |-> "raise", session |-> s, events |-> <<"refresh_access_token">>,
          exc |-> TaxonomyError("ValidationError",
                                "client_id and client_secret must be set to refresh token")]
    ELSE IF resp.kind = "client_error"
    THEN [t |-> "raise", session |-> s, events |-> <<"refresh_access_token", "post_token">>,
          exc |-> TaxonomyError("NetworkError", "Network error during token refresh")]
    ELSE IF resp.status # 200
    THEN [t |-> "raise", session |-> s, events |-> <<"refresh_access_token", "post_token">>,
          exc |-> WithStatus(TaxonomyError("AuthenticationError",
                                           "Failed to refresh access token"),
                             resp.status)]
    ELSE IF resp.access_token = None
    THEN \* KeyError: 'access_token'
         [t |-> "raise", session |-> s, events |-> <<"refresh_access_token", "post_token">>,
          exc |-> TaxonomyError("ValidationError", "Invalid response from LinkedIn API")]
    ELSE LET expires_in == IF resp.expires_in = Missing
                           THEN DefaultExpiresIn ELSE resp.expires_in
             new == TokenState(resp.access_token, t + expires_in,
                               NewRefreshToken(resp, refresh_token))
         IN  [t |-> "return", session |-> new, events |-> <<"refresh_access_token", "post_token">>,
              value |-> "session_state"]

\* _ensure_authenticated()
_ensure_authenticated(s, cfg, t, resp) ==
    IF ~is_authenticated(s, t)
    THEN IF s.present /\ Truthy(s.refresh_token)
         THEN LET r == refresh_access_token(s, cfg, t, resp) IN
              IF r.t = "raise"
              THEN r
              ELSE [t |-> "return", session |-> r.session, events |-> r.events,
                    value |-> None]
         ELSE [t |-> "raise", session |-> s, events |-> <<>>,
               exc |-> TaxonomyError("AuthenticationError",
                                     "Not authenticated and no refresh token available")]
    ELSE [t |-> "return", session |-> s, events |-> <<>>, value |-> None]

\* answers of the API to a request
HttpStatuses == {200, 400, 401, 403, 404, 429, 500, 503}

\* response.headers.get('Retry-After'): absent, or a number of seconds
RetryAfterHeaders == {Missing, 7}

\* what the transport raises instead of answering, with the facts the
\* except clause tests: aiohttp.ServerTimeoutError derives from
\* ServerConnectionError (a ClientConnectionError) and asyncio.TimeoutError;
\* the total timeout of the session raises a plain asyncio.TimeoutError,
\* which is no aiohttp.ClientError
TransportErrors ==
    { [cls |-> "ClientConnectionError", client_error |-> TRUE,
       connection_error |-> TRUE, timeout |-> FALSE],
      [cls |-> "ServerTimeoutError", client_error |-> TRUE,
       connection_error |-> TRUE, timeout |-> TRUE],
      [cls |-> "ClientPayloadError", client_error |-> TRUE,
       connection_error |-> FALSE, timeout |-> FALSE],
      [cls |-> "asyncio.TimeoutError", client_error |-> FALSE,
       connection_error |-> FALSE, timeout |-> TRUE] }

\* what self._session.request(...) does: an answer with a status and
\* possibly a Retry-After header, or a transport failure
UpstreamResponses ==
    {[kind |-> "response", status |-> st, retry_after |-> h] :
        st \in HttpStatuses \ {429}, h \in {Missing}}
    \cup
    {[kind |-> "response", status |-> 429, retry_after |-> h] :
        h \in RetryAfterHeaders}
    \cup
    {[kind |-> "failure", error |-> e] : e \in TransportErrors}

\* APIError(message, status_code=response.status): the base class of the
\* API errors
APIError(message, status) ==
    [kind |-> "APIError", message |-> message, status |-> status,
     retry_after |-> NoStatus]

\* except aiohttp.ClientError as e: ... (lines 459-465); an exception that
\* is no ClientError passes through
TransportFailure(e) ==
    IF ~e.client_error
    THEN [t |-> "raise", exc |-> PyException(e.cls, "")]
    ELSE IF e.connection_error
    THEN [t |-> "raise",
          exc |-> TaxonomyError("NetworkError", "Failed to connect to LinkedIn API")]
    ELSE IF e.timeout
    THEN [t |-> "raise",
          exc |-> TaxonomyError("TimeoutError", "Request to LinkedIn API timed out")]
    ELSE [t |-> "raise",
          exc |-> TaxonomyError("NetworkError", "Network error occurred")]

\* the body of `async with self._session.request(...) as response`
\* (lines 372-456) and the except clause after it
RequestOutcome(upstream) ==
    IF upstream.kind = "failure"
    THEN TransportFailure(upstream.error)
    ELSE LET status == upstream.status IN
         CASE status = 429 ->
                [t |-> "raise",
                 exc |-> WithStatus(
                            RateLimitError(IF upstream.retry_after = Missing
                                           THEN 60 ELSE upstream.retry_after),
                            status)]
           [] status = 401 ->
                [t |-> "raise",
                 exc |-> WithStatus(TaxonomyError("AuthenticationError",
                            "Invalid or expired access token"), status)]
           [] status = 403 ->
                [t |-> "raise",
                 exc |-> WithStatus(TaxonomyError("AuthorizationError",
                            "Insufficient permissions"), status)]
           [] status = 404 ->
                [t |-> "raise",
                 exc |-> WithStatus(TaxonomyError("NotFoundError",
                            "Resource not found"), status)]
           [] status >= 500 ->
                [t |-> "raise",
                 exc |-> WithStatus(TaxonomyError("ServiceUnavailableError",
                            "Server error"), status)]
           [] status >= 400 /\ status \notin {401, 403, 404, 429} /\ status < 500 ->
                [t |-> "raise", exc |-> APIError("API error", status)]
           [] OTHER -> [t |-> "return", value |-> "response_model"]

\* _make_request(..., requires_auth); "request" is the request sent to the
\* API.  A limiter object without acquire()/release() makes both calls raise
\* AttributeError.
_make_request(s, cfg, t, requires_auth, resp, upstream) ==
    LET a == IF requires_auth
             THEN _ensure_authenticated(s, cfg, t, resp)
             ELSE [t |-> "return", session |-> s, events |-> <<>>, value |-> None]
        sent == a.events
    IN  IF a.t = "raise"
        THEN [t |-> "raise", session |-> a.session, events |-> sent, exc |-> a.exc]
        ELSE IF ~cfg.limiter_has_acquire
        THEN [t |-> "raise", session |-> a.session, events |-> sent,
              exc |-> PyException("AttributeError",
                                  "'RateLimiter' object has no attribute 'release'")]
        ELSE LET o == RequestOutcome(upstream) IN
             IF o.t = "return"
             THEN [t |-> "return", session |-> a.session,
                   events |-> Append(sent, "request"), value |-> o.value]
             ELSE [t |-> "raise", session |-> a.session,
                   events |-> Append(sent, "request"), exc |-> o.exc]

\* variant: a token with exactly min_valid_seconds left counts as valid
StillValid_AtLeast(s, t, min_valid) == s.expires_at - t >= min_valid

\* (expires_at - now) > timedelta(seconds=min_valid_seconds)
StillValid(s, t, min_valid) == s.expires_at - t > min_valid

\* utils/auth.py refresh_token_if_needed(client, min_valid_seconds)
refresh_token_if_needed(s, cfg, t, min_valid, resp) ==
    IF ~s.present \/ ~Truthy(s.access_token)
    THEN [t |-> "raise", session |-> s, events |-> <<>>,
          exc |-> TaxonomyError("AuthenticationError", "No access token available")]
    ELSE IF StillValid(s, t, min_valid)
    THEN [t |-> "return", session |-> s, events |-> <<>>, value |-> "False"]
    ELSE IF ~Truthy(s.refresh_token)
    THEN [t |-> "raise", session |-> s, events |-> <<>>,
          exc |-> TaxonomyError("AuthenticationError",
                                "Token expired and no refresh token available")]
    ELSE LET r == refresh_access_token(s, cfg, t, resp)
             sent == r.events
         IN  IF r.t = "return"
             THEN [t |-> "return", session |-> r.session, events |-> sent,
                   value |-> "True"]
             ELSE [t |-> "raise", session |-> r.session, events |-> sent,
                   exc |-> TaxonomyError("AuthenticationError",
                                         "Failed to refresh access token")]

\* session states a client can be given through the session_state setter
InitialSessions ==
    {NoSessionState} \cup
    {TokenState(a, e, r) : a \in {"", "at0"}, e \in 0..2, r \in {None, "rt0"}}

\* LinkedInAPIClient(client_id, client_secret, ..., rate_limiter): with or
\* without credentials; with the default RateLimiter, which has no acquire()
\* and no release(), or with a limiter object that has them
ClientConfigs == [credentials : BOOLEAN, limiter_has_acquire : BOOLEAN]

\* a call that sends no request to the API
NoUpstream == [kind |-> "none"]

ClientOp(name, requires_auth, min_valid, resp, upstream, r) ==
    [name |-> name, requires_auth |-> requires_auth, min_valid |-> min_valid,
     resp |-> resp, upstream |-> upstream, raised |-> r.t = "raise",
     exc |-> IF r.t = "raise" THEN r.exc ELSE PyException(None, None),
     returned |-> IF r.t = "return" THEN r.value ELSE None,
     events |-> r.events]

ClientInit ==
    /\ DispatcherIdle
    /\ RetryIdle
    /\ LimiterIdle
    /\ AuthIdle
    /\ CacheIdle
    /\ LoopIdle
    /\ HandlerIdle
    /\ TasksIdle
    /\ CallersIdle
    /\ FetchIdle
    /\ WritersIdle
    /\ _session_state \in InitialSessions
    /\ utcnow = 0
    /\ client_cfg \in ClientConfigs
    /\ client_op = [name |-> "none"]

RefreshAccessToken(resp) ==
    /\ client_op.name # "off"
    /\ LET r == refresh_access_token(_session_state, client_cfg, utcnow, resp) IN
          /\ _session_state' = r.session
          /\ client_op' = ClientOp("refresh_access_token", FALSE, 0, resp, NoUpstream, r)
    /\ UNCHANGED <<utcnow, client_cfg>>
    /\ UNCHANGED outside_client

MakeRequest(requires_auth, resp, upstream) ==
    /\ client_op.name # "off"
    /\ LET r == _make_request(_session_state, client_cfg, utcnow, requires_auth,
                              resp, upstream) IN
          /\ _session_state' = r.session
          /\ client_op' = ClientOp("_make_request", requires_auth, 0, resp, upstream, r)
    /\ UNCHANGED <<utcnow, client_cfg>>
    /\ UNCHANGED outside_client

RefreshTokenIfNeeded(min_valid, resp) ==
    /\ client_op.name # "off"
    /\ LET r == refresh_token_if_needed(_session_state, client_cfg, utcnow,
                                        min_valid, resp) IN
          /\ _session_state' = r.session
          /\ client_op' = ClientOp("refresh_token_if_needed", FALSE, min_valid, resp,
                                  NoUpstream, r)
    /\ UNCHANGED <<utcnow, client_cfg>>
    /\ UNCHANGED outside_client

\* twenty minutes pass
TimePasses ==
    /\ client_op.name # "off"
    /\ utcnow < MaxUtc
    /\ utcnow' = utcnow + 1
    /\ UNCHANGED <<_session_state, client_cfg, client_op>>
    /\ UNCHANGED outside_client

\* values of min_valid_seconds, in ticks
MinValid == {0, 1}

\* an answer of the token endpoint and one of the API, for calls in which
\* the one or the other is not asked
AnyTokenAnswer ==
    CHOOSE r \in RefreshResponses :
        /\ r.status = 200 /\ r.access_token = "at1"
        /\ r.expires_in = Missing /\ r.refresh_token = None
AnyApiAnswer == [kind |-> "response", status |-> 200, retry_after |-> Missing]

\* what the network may do during one _make_request: the token endpoint
\* answers only if the call refreshes, the API only if the request is sent
RequestEnvs(requires_auth) ==
    IF /\ requires_auth
       /\ ~is_authenticated(_session_state, utcnow)
       /\ _session_state.present
       /\ Truthy(_session_state.refresh_token)
    THEN {[resp |-> r, upstream |-> u] :
             r \in RefreshResponses, u \in UpstreamResponses}
         \ {e \in [resp : RefreshResponses, upstream : UpstreamResponses] :
                /\ refresh_access_token(_session_state, client_cfg, utcnow,
                                        e.resp).t = "raise"
                /\ e.upstream # AnyApiAnswer}
    ELSE {[resp |-> AnyTokenAnswer, upstream |-> u] : u \in UpstreamResponses}

ClientNext ==
    \/ \E resp \in RefreshResponses : RefreshAccessToken(resp)
    \/ \E a \in BOOLEAN :
          \E e \in RequestEnvs(a) : MakeRequest(a, e.resp, e.upstream)
    \/ \E m \in MinValid, resp \in RefreshResponses : RefreshTokenIfNeeded(m, resp)
    \/ TimePasses

ClientSpec == ClientInit /\ [][ClientNext]_vars

(***************************************************************************)
(* Properties of the client's token handling                               *)
(***************************************************************************)

\* the session has no access token or its token is expired
TokenMissingOrExpired ==
    \/ ~_session_state.present
    \/ ~Truthy(_session_state.access_token)
    \/ _session_state.expires_at < utcnow

HasRefreshToken ==
    _session_state.present /\ Truthy(_session_state.refresh_token)

\* how often x occurs in the sequence e
Count(e, x) == Cardinality({i \in DOMAIN e : e[i] = x})

\* C17: a request that requires authentication, made while the access token
\* is missing or expired: with a refresh token the refresh is called first
\* and no request goes to the API before it; without one the call raises
\* AuthenticationError and neither a refresh nor the request is issued.
C17_RefreshBeforeCall ==
    [][ (/\ client_op'.name = "_make_request"
         /\ utcnow' = utcnow
         /\ client_op'.requires_auth
         /\ TokenMissingOrExpired)
           => IF HasRefreshToken
              THEN /\ client_op'.events # <<>>
                   /\ client_op'.events[1] = "refresh_access_token"
                   /\ Count(client_op'.events, "refresh_access_token") = 1
              ELSE /\ client_op'.raised
                   /\ client_op'.exc.kind = "AuthenticationError"
                   /\ client_op'.events = <<>> ]_vars

C17_Witness ==
    /\ client_op.name = "_make_request"
    /\ client_op.requires_auth
    /\ client_op.events = <<"refresh_access_token", "post_token", "request">>
    /\ ~client_op.raised

ValidFor(m) ==
    /\ _session_state.present
    /\ Truthy(_session_state.access_token)
    /\ _session_state.expires_at - utcnow > m

\* the access token is present and expired or within m ticks of its expiry
NearExpiry(m) ==
    /\ _session_state.present
    /\ Truthy(_session_state.access_token)
    /\ _session_state.expires_at - utcnow <= m

\* the token endpoint can be asked and answers 200 with an access token
RefreshWillSucceed(resp) ==
    /\ client_cfg.credentials
    /\ resp.kind = "ok" /\ resp.status = 200 /\ resp.access_token # None

RefreshIfNeededStep ==
    client_op'.name = "refresh_token_if_needed" /\ utcnow' = utcnow

\* C19 as stated: refresh_token_if_needed returns False without a refresh
\* exactly when the access token is present with more than min_valid_seconds
\* left; with the token expired or within min_valid_seconds of expiry and a
\* refresh token present it issues exactly one refresh and returns True.
C19_RefreshIfNeeded ==
    [][ RefreshIfNeededStep =>
          /\ (client_op'.returned = "False"
                 /\ Count(client_op'.events, "refresh_access_token") = 0)
                <=> ValidFor(client_op'.min_valid)
          /\ (NearExpiry(client_op'.min_valid) /\ HasRefreshToken)
                => /\ Count(client_op'.events, "refresh_access_token") = 1
                   /\ client_op'.returned = "True" ]_vars

\* C19 amended: as above, but the call returns True only if the one refresh
\* it issues succeeds; if that refresh fails the call raises
\* AuthenticationError and the session is as before.
C19_RefreshIfNeededOrRaise ==
    [][ RefreshIfNeededStep =>
          /\ (client_op'.returned = "False"
                 /\ Count(client_op'.events, "refresh_access_token") = 0)
                <=> ValidFor(client_op'.min_valid)
          /\ (NearExpiry(client_op'.min_valid) /\ HasRefreshToken)
                => /\ Count(client_op'.events, "refresh_access_token") = 1
                   /\ IF RefreshWillSucceed(client_op'.resp)
                      THEN client_op'.returned = "True"
                      ELSE /\ client_op'.raised
                           /\ client_op'.exc.kind = "AuthenticationError"
                           /\ _session_state' = _session_state ]_vars

C19_Witness ==
    /\ client_op.name = "refresh_token_if_needed"
    /\ client_op.min_valid = 1
    /\ client_op.returned = "True"
    /\ client_op.events = <<"refresh_access_token", "post_token">>
    /\ _session_state.expires_at = utcnow + 1

(***************************************************************************)
(* api/job_search.py and api/profile.py: the entity caches                 *)
(*                                                                         *)
(* LinkedInJobSearch and LinkedInProfile keep one JSON file per job,       *)
(* profile and company.  A cached record is a dict; it is modelled with    *)
(* an identifying member, a member every record of the entity carries      *)
(* (title: a job's title, a profile's name) and a member only the          *)
(* detailed record carries (description), each of which the dict may       *)
(* lack, hold as null or hold with a value, and the _cached_at stamp.      *)
(***************************************************************************)

MaxStamp == 1           \* datetime.now() is observed up to this tick

CacheIds == {"1"}

\* a key the dict does not have
Lacking == "<lacking>"
NoStamp == -1

\* the members of a record apart from its id and its stamp
Fields == {"title", "description"}

\* a JSON file holding the dict data
JsonFile(data) == [kind |-> "json", data |-> data]

\* the dicts handed to _cache_job_details
JobRecords ==
    [job_id : {None} \cup CacheIds, title : {None, "X"},
     description : {Lacking, None, "long text"}, _cached_at : {NoStamp}]

\* the dicts handed to _cache_profile and _cache_company
EntityRecords ==
    [title : {None, "X"},
     description : {Lacking, None, "long text"}, _cached_at : {NoStamp}]

\* open(file, "w") followed by json.dump; a failure is logged and swallowed
WriteJson(dir, id, data, w) ==
    CASE w = "ok"          -> [dir EXCEPT ![id] = JsonFile(data)]
      [] w = "open_failed" -> dir
      [] w = "dump_failed" -> [dir EXCEPT ![id] = CorruptFile]

\* variant: the incoming dict replaces what the file holds
MergeInto_Overwrite(existing_data, job_details) == job_details

\* for key, value in job_details.items():
\*     if value is not None and (key not in existing_data or
\*                               existing_data[key] is None):
\*         existing_data[key] = value
MergeInto(existing_data, job_details) ==
    [existing_data EXCEPT
        !.job_id = IF job_details.job_id \notin {Lacking, None}
                      /\ @ \in {Lacking, None}
                   THEN job_details.job_id ELSE @,
        !.title = IF job_details.title \notin {Lacking, None}
                      /\ @ \in {Lacking, None}
                   THEN job_details.title ELSE @,
        !.description = IF job_details.description \notin {Lacking, None}
                           /\ @ \in {Lacking, None}
                        THEN job_details.description ELSE @,
        !._cached_at = IF job_details._cached_at # NoStamp /\ @ = NoStamp
                       THEN job_details._cached_at ELSE @]

\* LinkedInJobSearch._cache_job_details(job_details) at time t
_cache_job_details(dir, job_details, t, w) ==
    LET job_id == job_details.job_id IN
    IF ~Truthy(job_id)
    THEN dir
    ELSE LET job_file == dir[job_id]
             \* an unreadable file: the except clause leaves job_details
             merged == IF job_file.kind = "json"
                       THEN MergeInto(job_file.data, job_details)
                       ELSE job_details
         IN WriteJson(dir, job_id, [merged EXCEPT !._cached_at = t], w)

\* LinkedInProfile._cache_profile(profile_id, profile_data) at time t
_cache_profile(dir, profile_id, profile_data, t, w) ==
    WriteJson(dir, profile_id, [profile_data EXCEPT !._cached_at = t], w)

\* LinkedInProfile._cache_company(company_id, company_data) at time t
_cache_company(dir, company_id, company_data, t, w) ==
    WriteJson(dir, company_id, [company_data EXCEPT !._cached_at = t], w)

\* the cache directories as the services find them: a job file may be
\* there and unreadable
CacheInit ==
    /\ DispatcherIdle
    /\ RetryIdle
    /\ LimiterIdle
    /\ AuthIdle
    /\ ClientIdle
    /\ LoopIdle
    /\ HandlerIdle
    /\ TasksIdle
    /\ CallersIdle
    /\ FetchIdle
    /\ WritersIdle
    /\ jobs_dir \in [CacheIds -> {AbsentFile, CorruptFile}]
    /\ profiles_dir = [i \in CacheIds |-> AbsentFile]
    /\ companies_dir = [i \in CacheIds |-> AbsentFile]
    /\ cache_now = 0
    /\ cache_op = [name |-> "none"]

CacheJobDetails(job_details, w) ==
    /\ cache_op.name # "off"
    /\ jobs_dir' = _cache_job_details(jobs_dir, job_details, cache_now, w)
    /\ cache_op' = [name |-> "_cache_job_details"]
    /\ UNCHANGED <<profiles_dir, companies_dir, cache_now>>
    /\ UNCHANGED outside_cache

CacheProfile(profile_id, profile_data, w) ==
    /\ cache_op.name # "off"
    /\ profiles_dir' = _cache_profile(profiles_dir, profile_id, profile_data,
                                      cache_now, w)
    /\ cache_op' = [name |-> "_cache_profile"]
    /\ UNCHANGED <<jobs_dir, companies_dir, cache_now>>
    /\ UNCHANGED outside_cache

CacheCompany(company_id, company_data, w) ==
    /\ cache_op.name # "off"
    /\ companies_dir' = _cache_company(companies_dir, company_id, company_data,
                                       cache_now, w)
    /\ cache_op' = [name |-> "_cache_company"]
    /\ UNCHANGED <<jobs_dir, profiles_dir, cache_now>>
    /\ UNCHANGED outside_cache

CacheTimePasses ==
    /\ cache_op.name # "off"
    /\ cache_now < MaxStamp
    /\ cache_now' = cache_now + 1
    /\ UNCHANGED <<jobs_dir, profiles_dir, companies_dir, cache_op>>
    /\ UNCHANGED outside_cache

CacheNext ==
    \/ \E d \in JobRecords, w \in WriteOutcomes : CacheJobDetails(d, w)
    \/ \E i \in CacheIds, d \in EntityRecords, w \in WriteOutcomes :
          CacheProfile(i, d, w)
    \/ \E i \in CacheIds, d \in EntityRecords, w \in WriteOutcomes :
          CacheCompany(i, d, w)
    \/ CacheTimePasses

CacheSpec == CacheInit /\ [][CacheNext]_vars

(***************************************************************************)
(* Properties of the entity caches                                         *)
(***************************************************************************)

\* the file holds a dict in which member f has a non-null value
HoldsField(file, f) ==
    file.kind = "json" /\ file.data[f] \notin {Lacking, None}

\* writing data for id turns dir into dir2 and keeps, for every member
\* that data lacks or has null, the non-null value the file of id held
KeepsFields(dir, dir2, id, data) ==
    \A f \in Fields :
        (HoldsField(dir[id], f) /\ data[f] \in {Lacking, None})
            => /\ dir2[id].kind = "json"
               /\ dir2[id].data[f] = dir[id].data[f]

\* the job cache keeps what it holds through every completed write
JobCacheKeepsFields ==
    [][ \A d \in JobRecords :
           (Truthy(d.job_id) /\ CacheJobDetails(d, "ok"))
              => KeepsFields(jobs_dir, jobs_dir', d.job_id, d) ]_vars

\* C20: in the job, the profile and the company cache a member with a
\* non-null value in the cached record of an id is never erased or replaced
\* by a later completed write, for that id, of a record that lacks the
\* member or has it null.
C20_MergeKeepsFields ==
    [][ /\ \A d \in JobRecords :
              (Truthy(d.job_id) /\ CacheJobDetails(d, "ok"))
                 => KeepsFields(jobs_dir, jobs_dir', d.job_id, d)
        /\ \A i \in CacheIds, d \in EntityRecords :
              CacheProfile(i, d, "ok")
                 => KeepsFields(profiles_dir, profiles_dir', i, d)
        /\ \A i \in CacheIds, d \in EntityRecords :
              CacheCompany(i, d, "ok")
                 => KeepsFields(companies_dir, companies_dir', i, d) ]_vars

\* the job file of an id holds a description and a stamp later than zero:
\* it was written, and written again
JobDetailsKept ==
    \E i \in CacheIds :
        /\ HoldsField(jobs_dir[i], "description")
        /\ jobs_dir[i].data._cached_at > 0

(***************************************************************************)
(* server.py: main with its input stream                                   *)
(*                                                                         *)
(* read_stdin hands sys.stdin.readline to the default executor, and main   *)
(* awaits it under asyncio.wait_for(..., timeout=1.0).  A timeout cancels  *)
(* the future main awaits; the executor thread is not interrupted and      *)
(* stays blocked in readline, and what it reads later goes to the          *)
(* cancelled future.  The signal callback of _setup_signal_handlers        *)
(* evaluates `s.signal`, an attribute signal.Signals does not have, so it  *)
(* raises before self.shutdown is called; where no callback is installed   *)
(* (win32) an interrupt cancels the main task.                             *)
(***************************************************************************)

MaxLines == 3           \* request lines written to the input stream
MaxWorkers == 2         \* threads of the default executor
MaxSignals == 1         \* signals delivered to the process

Platforms == {"posix", "win32"}

NoItem == [n |-> 0]

\* what is written to the input stream: a line and the behaviour of the
\* service behind it
LoopInputs ==
    { [line |-> [shape |-> "not_json", id |-> None, method |-> None,
                 params |-> <<>>],
       svc |-> <<Returns(JobRecord)>>],
      [line |-> [shape |-> "object", id |-> "r1", method |-> "linkedin.unknown",
                 params |-> <<>>],
       svc |-> <<Returns(JobRecord)>>],
      [line |-> [shape |-> "object", id |-> "r2",
                 method |-> "linkedin.getJobDetails",
                 params |-> ("jobId" :> "42")],
       svc |-> <<Raises(PyException("Exception", "Not logged in"))>>],
      [line |-> BlankLine, svc |-> <<>>] }

\* the callback `lambda s=sig: asyncio.create_task(self.shutdown(s.signal ==
\* signal.SIGINT))`: TRUE iff it gets as far as calling self.shutdown
SignalCallbackCallsShutdown == FALSE

\* LinkedInMCPServer.shutdown(graceful): the event afterwards and the
\* seconds slept; with the event already set the call returns at once
shutdown(event, graceful) ==
    [event |-> TRUE,
     slept |-> IF event THEN 0 ELSE IF graceful THEN 1 ELSE 0]

LoopInit ==
    /\ DispatcherIdle
    /\ RetryIdle
    /\ LimiterIdle
    /\ AuthIdle
    /\ ClientIdle
    /\ CacheIdle
    /\ HandlerIdle
    /\ TasksIdle
    /\ CallersIdle
    /\ FetchIdle
    /\ WritersIdle
    /\ platform \in Platforms
    /\ mpc = "while"
    /\ stdin = <<>>
    /\ submitted = 0
    /\ orphans = 0
    /\ item = NoItem
    /\ reply = NoResponse
    /\ stdout = <<>>
    /\ taken = <<>>
    /\ _shutdown_event = FALSE
    /\ signals = 0

\* the client writes a line; request lines are numbered in the order written
Submit(in) ==
    /\ mpc \notin {"off", "exited"}
    /\ submitted < MaxLines
    /\ Len(stdin) < MaxLines
    /\ IF in.line = BlankLine
       THEN /\ stdin' = Append(stdin, [n |-> 0, line |-> in.line, svc |-> in.svc])
            /\ UNCHANGED submitted
       ELSE /\ stdin' = Append(stdin, [n |-> submitted + 1, line |-> in.line,
                                       svc |-> in.svc])
            /\ submitted' = submitted + 1
    /\ UNCHANGED <<platform, mpc, orphans, item, reply, stdout, taken,
                   _shutdown_event, signals>>
    /\ UNCHANGED outside_loop

\* while not server._shutdown_event.is_set(): ... wait_for(read_stdin(), 1.0)
WhileTest ==
    /\ mpc = "while"
    /\ mpc' = IF _shutdown_event THEN "finally" ELSE "wait"
    /\ UNCHANGED <<platform, stdin, submitted, orphans, item, reply, stdout,
                   taken, _shutdown_event, signals>>
    /\ UNCHANGED outside_loop

\* the thread of the awaited read_stdin is running iff a worker is free
AwaitedReaderRuns == orphans < MaxWorkers

\* the awaited readline returns the next line: line = line.strip();
\* `if not line: continue`
ReadCompletes ==
    /\ mpc = "wait"
    /\ AwaitedReaderRuns
    /\ stdin # <<>>
    /\ stdin' = Tail(stdin)
    /\ IF Head(stdin).line = BlankLine
       THEN /\ mpc' = "while"
            /\ UNCHANGED <<item, taken>>
       ELSE /\ mpc' = "handle"
            /\ item' = Head(stdin)
            /\ taken' = Append(taken, Head(stdin).n)
    /\ UNCHANGED <<platform, submitted, orphans, reply, stdout,
                   _shutdown_event, signals>>
    /\ UNCHANGED outside_loop

\* a second passes without a line: asyncio.TimeoutError, `continue`.  The
\* thread of the cancelled read stays blocked in readline; a read that was
\* still queued behind blocked workers is cancelled before it starts.
ReadTimeout ==
    /\ mpc = "wait"
    /\ stdin = <<>>
    /\ mpc' = "while"
    /\ orphans' = IF AwaitedReaderRuns THEN orphans + 1 ELSE orphans
    /\ UNCHANGED <<platform, stdin, submitted, item, reply, stdout, taken,
                   _shutdown_event, signals>>
    /\ UNCHANGED outside_loop

\* a thread left behind by a timeout reads the next line for a future
\* nobody awaits
OrphanReads ==
    /\ mpc \notin {"off", "exited"}
    /\ orphans > 0
    /\ stdin # <<>>
    /\ stdin' = Tail(stdin)
    /\ orphans' = orphans - 1
    /\ UNCHANGED <<platform, mpc, submitted, item, reply, stdout, taken,
                   _shutdown_event, signals>>
    /\ UNCHANGED outside_loop

\* response = await server.handle_request(line)
LoopHandle ==
    /\ mpc = "handle"
    /\ reply' = handle_request(item.line, item.svc).resp
    /\ mpc' = "print"
    /\ UNCHANGED <<platform, stdin, submitted, orphans, item, stdout, taken,
                   _shutdown_event, signals>>
    /\ UNCHANGED outside_loop

\* variant: after an error response main leaves the loop
LoopPrint_ErrorEndsLoop ==
    /\ mpc = "print"
    /\ stdout' = Append(stdout, [n |-> item.n, response |-> reply])
    /\ mpc' = IF IsFailure(reply) THEN "finally" ELSE "while"
    /\ item' = NoItem
    /\ reply' = NoResponse
    /\ UNCHANGED <<platform, stdin, submitted, orphans, taken,
                   _shutdown_event, signals>>
    /\ UNCHANGED outside_loop

\* print(response, flush=True)
LoopPrint ==
    /\ mpc = "print"
    /\ stdout' = Append(stdout, [n |-> item.n, response |-> reply])
    /\ mpc' = "while"
    /\ item' = NoItem
    /\ reply' = NoResponse
    /\ UNCHANGED <<platform, stdin, submitted, orphans, taken,
                   _shutdown_event, signals>>
    /\ UNCHANGED outside_loop

\* SIGTERM or SIGINT where _setup_signal_handlers installed the callback
Signal ==
    /\ platform = "posix"
    /\ mpc \notin {"off", "exited"}
    /\ signals < MaxSignals
    /\ signals' = signals + 1
    /\ _shutdown_event' = IF SignalCallbackCallsShutdown
                          THEN shutdown(_shutdown_event, TRUE).event
                          ELSE _shutdown_event
    /\ UNCHANGED <<platform, mpc, stdin, submitted, orphans, item, reply,
                   stdout, taken>>
    /\ UNCHANGED outside_loop

\* Ctrl-C where no callback is installed: the main task is cancelled while
\* it awaits the read; `except asyncio.CancelledError: break`
Interrupt ==
    /\ platform = "win32"
    /\ mpc = "wait"
    /\ signals < MaxSignals
    /\ signals' = signals + 1
    /\ mpc' = "finally"
    /\ orphans' = IF AwaitedReaderRuns THEN orphans + 1 ELSE orphans
    /\ UNCHANGED <<platform, stdin, submitted, item, reply, stdout, taken,
                   _shutdown_event>>
    /\ UNCHANGED outside_loop

\* finally: await server.shutdown(); return 0
Finally ==
    /\ mpc = "finally"
    /\ _shutdown_event' = shutdown(_shutdown_event, TRUE).event
    /\ mpc' = "exited"
    /\ UNCHANGED <<platform, stdin, submitted, orphans, item, reply, stdout,
                   taken, signals>>
    /\ UNCHANGED outside_loop

LoopNext ==
    \/ \E in \in LoopInputs : Submit(in)
    \/ WhileTest
    \/ ReadCompletes
    \/ ReadTimeout
    \/ OrphanReads
    \/ LoopHandle
    \/ LoopPrint
    \/ Signal
    \/ Interrupt
    \/ Finally

LoopSpec == LoopInit /\ [][LoopNext]_vars

(***************************************************************************)
(* Properties of the main loop                                             *)
(***************************************************************************)

\* handling the line raises: the request cannot be parsed, or the call of
\* its handler raises
HandlingRaises(it) ==
    LET p == ParseRequest(it.line) IN
    IF p.t = "raise"
    THEN TRUE
    ELSE /\ p.value.method \in DOMAIN method_handlers
         /\ InvokeHandler(method_handlers[p.value.method], p.value.params,
                          p.value.id, it.svc).t = "raise"

\* the numbers of the lines that were answered, in the order of the answers
Answered == [i \in DOMAIN stdout |-> stdout[i].n]

\* the lines main got and is not handling any more
Handled ==
    IF mpc \in {"handle", "print"}
    THEN SubSeq(taken, 1, Len(taken) - 1)
    ELSE taken

C22_InSubmissionOrder ==
    \A i \in DOMAIN stdout : stdout[i].n = i

\* C23: once a shutdown signal has been delivered to the server no line
\* read afterwards is dispatched.
C23_NoDispatchAfterShutdown ==
    [][ signals > 0 => ~(mpc = "wait" /\ mpc' = "handle") ]_vars


(***************************************************************************)
(* Error kinds that cross component boundaries                             *)
(***************************************************************************)

\* C24: an error the rate limiter lets propagate to its caller, from
\* _acquire or from the wrapper after its last attempt, is of one of the
\* closed taxonomy kinds of core/exceptions.py.
C24_OnlyTaxonomyErrors ==
    /\ acquired.t = "raise" => acquired.exc.kind \in TaxonomyKinds
    /\ (woutcome.t = "raise" /\ func_calls = 0)
          => woutcome.exc.kind \in TaxonomyKinds


\* the latest call was a _make_request that sent its request to the API
RequestSent ==
    /\ client_op.name = "_make_request"
    /\ client_op.events # <<>>
    /\ client_op.events[Len(client_op.events)] = "request"

\* C25: an API call maps every failure to a taxonomy kind: status 429 to
\* RateLimitError with the Retry-After value (60 without the header), 401 to
\* AuthenticationError, 403 to AuthorizationError, 404 to NotFoundError, a
\* 5xx to ServiceUnavailableError, a connection or other client-library
\* error to NetworkError, an exceeded request timeout to TimeoutError; no
\* other exception leaves the call.
C25_FailureMapping ==
    RequestSent =>
        LET u == client_op.upstream
            e == client_op.exc
            Is(kind) == client_op.raised /\ e.kind = kind
        IN  /\ (u.kind = "response" /\ u.status = 429)
                  => /\ Is("RateLimitError")
                     /\ e.retry_after = (IF u.retry_after = Missing
                                         THEN 60 ELSE u.retry_after)
            /\ (u.kind = "response" /\ u.status = 401) => Is("AuthenticationError")
            /\ (u.kind = "response" /\ u.status = 403) => Is("AuthorizationError")
            /\ (u.kind = "response" /\ u.status = 404) => Is("NotFoundError")
            /\ (u.kind = "response" /\ u.status >= 500)
                  => Is("ServiceUnavailableError")
            /\ (u.kind = "failure" /\ ~u.error.timeout) => Is("NetworkError")
            /\ (u.kind = "failure" /\ u.error.cls = "asyncio.TimeoutError")
                  => Is("TimeoutError")
            /\ (u.kind = "failure" /\ u.error.timeout)
                  => (Is("TimeoutError") \/ Is("NetworkError"))
            /\ client_op.raised => e.kind \in TaxonomyKinds

\* the same for the statuses the claim names and for the failures that are
\* aiohttp.ClientError
StatusMappingHolds ==
    (RequestSent /\ ~(client_op.upstream.kind = "response"
                         /\ client_op.upstream.status = 400)
                 /\ ~(client_op.upstream.kind = "failure"
                         /\ ~client_op.upstream.error.client_error))
        => C25_FailureMapping


\* C29: an authenticated request of a session with a refresh token that is
\* answered with 401 is followed by exactly one token refresh and exactly
\* one more sending of the request.
C29_RefreshAndRetryOn401 ==
    (/\ RequestSent
     /\ client_op.requires_auth
     /\ HasRefreshToken
     /\ client_op.events[1] = "request"
     /\ client_op.upstream.kind = "response"
     /\ client_op.upstream.status = 401)
        => /\ Count(client_op.events, "refresh_access_token") = 1
           /\ Count(client_op.events, "request") = 2


\* ------------------------------------------------------------------------
\* MCPHandler and its services: which LinkedInAuth each of them holds
\* ------------------------------------------------------------------------

\* LinkedInAuth(): no client, no driver, logged out
LinkedInAuth ==
    [api_client |-> None, driver |-> None, session_state |-> LoggedOutState]

\* the LinkedInAuth object a as a call on it finds it
AuthObject(a) ==
    [api_client |-> a.api_client, driver |-> a.driver, dropped |-> FALSE,
     session_state |-> a.session_state, files |-> session_dir,
     result |-> [t |-> "none"], api_logins |-> 0, browser_logins |-> 0,
     adopted |-> FALSE, trace |-> <<>>]

\* the LinkedInAuth object as the call that computed r leaves it
AuthLeft(r) ==
    [api_client |-> r.api_client, driver |-> r.driver,
     session_state |-> r.session_state]

HandlerOp(method, returned, passes) ==
    [method |-> method, returned |-> returned, passes |-> passes]

\* the methods whose service checks the session first, and the service of each
ServiceMethods ==
    {"linkedin.searchJobs", "linkedin.getJobDetails", "linkedin.getProfile"}

\* self.job_search = LinkedInJobSearch(), self.profile = LinkedInProfile():
\* each constructor runs self.auth = LinkedInAuth()
ServiceAuth(method) ==
    IF method = "linkedin.getProfile" THEN profile_auth ELSE job_search_auth

\* MCPHandler(): self.auth, self.job_search, self.profile
HandlerInit ==
    /\ DispatcherIdle
    /\ RetryIdle
    /\ LimiterIdle
    /\ AuthIdle
    /\ ClientIdle
    /\ CacheIdle
    /\ LoopIdle
    /\ TasksIdle
    /\ CallersIdle
    /\ FetchIdle
    /\ WritersIdle
    /\ handler_auth = LinkedInAuth
    /\ job_search_auth = LinkedInAuth
    /\ profile_auth = LinkedInAuth
    /\ session_dir \in [Usernames -> {AbsentFile, CorruptFile, SessionData(0, "api")}]
    /\ handler_op = HandlerOp("none", FALSE, FALSE)

\* _handle_login: self.auth.login(username, password)
HandleLogin(username, env) ==
    /\ handler_op.method # "off"
    /\ LET r == login(AuthObject(handler_auth), username, FALSE, 0, env) IN
        /\ handler_auth' = AuthLeft(r)
        /\ session_dir' = r.files
        /\ handler_op' = HandlerOp("linkedin.login", r.result.t = "return", FALSE)
    /\ UNCHANGED <<job_search_auth, profile_auth>>
    /\ UNCHANGED outside_handler

\* _handle_logout: self.auth.logout()
HandleLogout ==
    /\ handler_op.method # "off"
    /\ LET r == logout(AuthObject(handler_auth)) IN
        /\ handler_auth' = AuthLeft(r)
        /\ handler_op' = HandlerOp("linkedin.logout", TRUE, FALSE)
    /\ UNCHANGED <<job_search_auth, profile_auth, session_dir>>
    /\ UNCHANGED outside_handler

\* _handle_check_session: self.auth.check_session()
HandleCheckSession(probe) ==
    /\ handler_op.method # "off"
    /\ LET r == check_session(AuthObject(handler_auth), probe) IN
        /\ handler_auth' = AuthLeft(r)
        /\ handler_op' = HandlerOp("linkedin.checkSession", TRUE,
                                   r.result.value.logged_in)
    /\ UNCHANGED <<job_search_auth, profile_auth, session_dir>>
    /\ UNCHANGED outside_handler

\* search_jobs, get_job_details, get_profile up to the session check:
\* if not self._check_session(): raise Exception("Not logged in")
ServiceRequest(method, probe) ==
    /\ handler_op.method # "off"
    /\ LET r == check_session(AuthObject(ServiceAuth(method)), probe)
           passes == r.result.value.logged_in
       IN
        /\ IF method = "linkedin.getProfile"
           THEN /\ profile_auth' = AuthLeft(r)
                /\ UNCHANGED job_search_auth
           ELSE /\ job_search_auth' = AuthLeft(r)
                /\ UNCHANGED profile_auth
        /\ handler_op' = HandlerOp(method, passes, passes)
    /\ UNCHANGED <<handler_auth, session_dir>>
    /\ UNCHANGED outside_handler

HandlerNext ==
    \/ \E u \in Usernames : \E env \in LoginEnvs : HandleLogin(u, env)
    \/ HandleLogout
    \/ \E probe \in BOOLEAN : HandleCheckSession(probe)
    \/ \E m \in ServiceMethods : \E probe \in BOOLEAN : ServiceRequest(m, probe)

HandlerSpec == HandlerInit /\ [][HandlerNext]_vars

\* linkedin.login returned and left the handler's LinkedInAuth with a client
\* or a driver
LoginSucceeded ==
    /\ handler_op.method = "linkedin.login"
    /\ handler_op.returned
    /\ (handler_auth.api_client # None \/ handler_auth.driver # None)

\* C26: the session a service consults is the one the dispatcher's login and
\* logout change: a searchJobs, getJobDetails or getProfile that follows a
\* successful linkedin.login passes its session check, and one that follows
\* linkedin.logout fails it
C26_ServicesShareSession ==
    [][ /\ (LoginSucceeded /\ handler_op'.method \in ServiceMethods)
            => handler_op'.passes
        /\ (handler_op.method = "linkedin.logout"
              /\ handler_op'.method \in ServiceMethods)
            => ~handler_op'.passes ]_vars


\* ------------------------------------------------------------------------
\* Concurrent _make_request calls on one LinkedInAPIClient: the tasks of one
\* event loop, each running from one await to the next without interruption
\* ------------------------------------------------------------------------

\* how many requests run at the same time
MaxTasks == 2

Tasks == 1..MaxTasks

\* the time of the run: sessions with expires_at = 0 are expired
TasksNow == 1

Task(at, refresh_token) == [pc |-> at, refresh_token |-> refresh_token]

\* the sessions the tasks can find
TaskSessions ==
    {NoSessionState} \cup
    {TokenState("at0", e, r) : e \in 0..2, r \in {None, "rt0"}}

TasksInit ==
    /\ DispatcherIdle
    /\ RetryIdle
    /\ LimiterIdle
    /\ AuthIdle
    /\ ClientIdle
    /\ CacheIdle
    /\ LoopIdle
    /\ HandlerIdle
    /\ CallersIdle
    /\ FetchIdle
    /\ WritersIdle
    /\ tasks = [k \in Tasks |-> Task("created", None)]
    /\ shared_state \in TaskSessions
    /\ shared_cfg \in ClientConfigs
    /\ in_flight = 0
    /\ refresh_posts = 0

\* where a task that is past _ensure_authenticated stops next:
\* await self.rate_limiter.acquire() raises AttributeError on a limiter
\* without acquire(); otherwise the task waits for the API's answer
AfterEnsure ==
    IF shared_cfg.limiter_has_acquire THEN "request" ELSE "raised"

\* _make_request from its call to its first suspension: _ensure_authenticated
\* and, when the session is expired, refresh_access_token up to
\* `async with self._session.post(...)`
TaskStart(k, requires_auth) ==
    /\ tasks[k].pc = "created"
    /\ IF ~requires_auth \/ is_authenticated(shared_state, TasksNow)
       THEN /\ tasks' = [tasks EXCEPT ![k] = Task(AfterEnsure, None)]
            /\ UNCHANGED <<in_flight, refresh_posts>>
       ELSE IF ~(shared_state.present /\ Truthy(shared_state.refresh_token))
               \/ ~shared_cfg.credentials
       THEN /\ tasks' = [tasks EXCEPT ![k] = Task("raised", None)]
            /\ UNCHANGED <<in_flight, refresh_posts>>
       ELSE /\ tasks' = [tasks EXCEPT ![k] = Task("post", shared_state.refresh_token)]
            /\ in_flight' = in_flight + 1
            /\ refresh_posts' = refresh_posts + 1
    /\ UNCHANGED <<shared_state, shared_cfg>>
    /\ UNCHANGED outside_tasks

\* the token endpoint answers task k's POST: the rest of
\* refresh_access_token, with the refresh token the task read before the POST,
\* then _make_request up to its next suspension
TaskPostAnswered(k, resp) ==
    /\ tasks[k].pc = "post"
    /\ LET r == refresh_access_token(TokenState(None, 0, tasks[k].refresh_token),
                                     shared_cfg, TasksNow, resp) IN
        IF r.t = "raise"
        THEN /\ tasks' = [tasks EXCEPT ![k] = Task("raised", None)]
             /\ UNCHANGED shared_state
        ELSE /\ tasks' = [tasks EXCEPT ![k] = Task(AfterEnsure, None)]
             /\ shared_state' = r.session
    /\ in_flight' = in_flight - 1
    /\ UNCHANGED <<shared_cfg, refresh_posts>>
    /\ UNCHANGED outside_tasks

\* the API answers task k's request
TaskRequestAnswered(k, upstream) ==
    /\ tasks[k].pc = "request"
    /\ tasks' = [tasks EXCEPT ![k] =
                    Task(IF RequestOutcome(upstream).t = "return"
                         THEN "returned" ELSE "raised", None)]
    /\ UNCHANGED <<shared_state, shared_cfg, in_flight, refresh_posts>>
    /\ UNCHANGED outside_tasks

TasksNext ==
    \/ \E k \in Tasks : \E a \in BOOLEAN : TaskStart(k, a)
    \/ \E k \in Tasks : \E resp \in RefreshResponses : TaskPostAnswered(k, resp)
    \/ \E k \in Tasks : \E u \in UpstreamResponses : TaskRequestAnswered(k, u)

TasksSpec == TasksInit /\ [][TasksNext]_vars

\* C27: of the concurrent requests that find the session expired with a
\* refresh token present, one refreshes and the others wait for its result:
\* at most one refresh POST is in flight at any time, and as long as no call
\* has failed one refresh was sent in total
C27_SingleRefresh ==
    /\ in_flight <= 1
    /\ (\A k \in Tasks : tasks[k].pc # "raised") => refresh_posts <= 1


\* ------------------------------------------------------------------------
\* Concurrent _acquire calls on one RateLimiter.  Every statement of
\* _acquire is a step of its own and the callers may be switched between
\* any two statements, which is more than one event loop does: what keeps
\* the callers apart is self.lock alone.
\* ------------------------------------------------------------------------

\* how many callers share the limiter
MaxCallers == 2

\* the clock is observed up to this tick
MaxWall == 3

Callers == 1..MaxCallers

Caller(at, t) == [pc |-> at, now |-> t]

\* RateLimiter(max_requests, window)
SharedLimiters == [max_requests : 1..MaxRequests, window : {2}]

CallersInit ==
    /\ DispatcherIdle
    /\ RetryIdle
    /\ LimiterIdle
    /\ AuthIdle
    /\ ClientIdle
    /\ CacheIdle
    /\ LoopIdle
    /\ HandlerIdle
    /\ TasksIdle
    /\ FetchIdle
    /\ WritersIdle
    /\ limiter \in SharedLimiters
    /\ timestamps = <<>>
    /\ lock = 0
    /\ callers = [k \in Callers |-> Caller("idle", 0)]
    /\ wall = 0
    /\ admissions = <<>>

\* positions between `async with self.lock:` and the end of its block
InBody(k) == callers[k].pc \in {"now", "cleanup", "check", "append", "raise"}

\* a caller starts _acquire()
CallAcquire(k) ==
    /\ callers[k].pc \in {"idle", "returned", "raised"}
    /\ callers' = [callers EXCEPT ![k] = Caller("enter", 0)]
    /\ UNCHANGED <<limiter, timestamps, lock, wall, admissions>>
    /\ UNCHANGED outside_callers

\* variant: the block is entered whether or not the lock is held
LockEnter_NoExclusion(k) ==
    /\ callers[k].pc = "enter"
    /\ lock' = k
    /\ callers' = [callers EXCEPT ![k] = Caller("now", 0)]
    /\ UNCHANGED <<limiter, timestamps, wall, admissions>>
    /\ UNCHANGED outside_callers

\* async with self.lock: the caller goes on when the lock is free and
\* waits while another caller holds it
LockEnter(k) ==
    /\ callers[k].pc = "enter"
    /\ lock = 0
    /\ lock' = k
    /\ callers' = [callers EXCEPT ![k] = Caller("now", 0)]
    /\ UNCHANGED <<limiter, timestamps, wall, admissions>>
    /\ UNCHANGED outside_callers

\* now = time.time()
ReadTime(k) ==
    /\ callers[k].pc = "now"
    /\ callers' = [callers EXCEPT ![k] = Caller("cleanup", wall)]
    /\ UNCHANGED <<limiter, timestamps, lock, wall, admissions>>
    /\ UNCHANGED outside_callers

\* self._cleanup_old_requests(now)
Cleanup(k) ==
    /\ callers[k].pc = "cleanup"
    /\ timestamps' = _cleanup_old_requests(timestamps, limiter, callers[k].now)
    /\ callers' = [callers EXCEPT ![k].pc = "check"]
    /\ UNCHANGED <<limiter, lock, wall, admissions>>
    /\ UNCHANGED outside_callers

\* if len(self.requests) >= self.max_requests
CheckWindow(k) ==
    /\ callers[k].pc = "check"
    /\ callers' = [callers EXCEPT ![k].pc =
                      IF WindowFull(timestamps, limiter) THEN "raise" ELSE "append"]
    /\ UNCHANGED <<limiter, timestamps, lock, wall, admissions>>
    /\ UNCHANGED outside_callers

\* self.requests.append(now); return now -- leaving the block releases the
\* lock
AppendAndReturn(k) ==
    /\ callers[k].pc = "append"
    /\ timestamps' = Append(timestamps, callers[k].now)
    /\ admissions' = Append(admissions, callers[k].now)
    /\ lock' = IF lock = k THEN 0 ELSE lock
    /\ callers' = [callers EXCEPT ![k].pc = "returned"]
    /\ UNCHANGED <<limiter, wall>>
    /\ UNCHANGED outside_callers

\* raise RateLimitExceeded(...) -- leaving the block releases the lock
RaiseExceeded(k) ==
    /\ callers[k].pc = "raise"
    /\ lock' = IF lock = k THEN 0 ELSE lock
    /\ callers' = [callers EXCEPT ![k].pc = "raised"]
    /\ UNCHANGED <<limiter, timestamps, wall, admissions>>
    /\ UNCHANGED outside_callers

\* a second passes; admissions that no window ending now or later can hold
\* are forgotten
WallTick ==
    /\ callers # <<>>
    /\ wall < MaxWall
    /\ wall' = wall + 1
    /\ LET Recent(x) == x > wall + 1 - limiter.window IN
          admissions' = SelectSeq(admissions, Recent)
    /\ UNCHANGED <<limiter, timestamps, lock, callers>>
    /\ UNCHANGED outside_callers

CallersNext ==
    \/ \E k \in Callers : CallAcquire(k)
    \/ \E k \in Callers : LockEnter(k)
    \/ \E k \in Callers : ReadTime(k)
    \/ \E k \in Callers : Cleanup(k)
    \/ \E k \in Callers : CheckWindow(k)
    \/ \E k \in Callers : AppendAndReturn(k)
    \/ \E k \in Callers : RaiseExceeded(k)
    \/ WallTick

CallersSpec == CallersInit /\ [][CallersNext]_vars

\* positions of the admissions made after time t
AdmittedSince(t) == {i \in DOMAIN admissions : admissions[i] > t}

\* C28: under every interleaving of concurrent _acquire calls, prune, check
\* and record run as one atomic step: at most one caller is between the
\* entry of the block and its end, and the admissions within the window that
\* ends now never exceed max_requests
C28_AtomicAdmission ==
    /\ \A j, k \in Callers : (InBody(j) /\ InBody(k)) => j = k
    /\ Cardinality(AdmittedSince(wall - limiter.window)) <= limiter.max_requests

\* one slot was free and two callers asked for it at the same time: one was
\* admitted, the other rejected
C28_Witness ==
    /\ Len(timestamps) = limiter.max_requests
    /\ \E j, k \in Callers :
          /\ callers[j].pc = "returned"
          /\ callers[k].pc = "raised"
          /\ callers[j].now = callers[k].now


\* ------------------------------------------------------------------------
\* Which failures the predefined retry configurations retry
\* ------------------------------------------------------------------------

\* retry_on of DEFAULT_RETRY_CONFIG and RATE_LIMIT_RETRY_CONFIG ({Exception})
\* and of NETWORK_RETRY_CONFIG and LOGIN_RETRY_CONFIG
PredefinedRetryOn == { {"Exception"}, {"ConnectionError", "TimeoutError"} }

\* the error kinds that are final
FinalKinds ==
    {"AuthenticationError", "AuthorizationError", "ValidationError", "NotFoundError"}

\* the latest invocation of the wrapped function failed with a final kind
FailedWithFinalKind ==
    /\ invocations >= 1
    /\ op[invocations].t = "raise"
    /\ op[invocations].exc.kind \in FinalKinds

\* C30: under the predefined retry configurations an operation that failed
\* with an Authentication, Authorization, Validation or NotFound error is not
\* invoked again: the failure ends the call after that one invocation
C30_FinalErrorsNotRetried ==
    [][ (config.retry_on \in PredefinedRetryOn /\ FailedWithFinalKind)
            => invocations' = invocations ]_vars

(***************************************************************************)
(* api/job_search.py and api/profile.py: search_jobs, get_job_details,     *)
(* get_profile and get_company                                             *)
(*                                                                         *)
(* The four operations have one shape: the session check, the cached       *)
(* record (not for search_jobs), the programmatic path with its retry      *)
(* loop, the browser path.  A behaviour follows one operation on one       *)
(* entity; datetime.now() is counted in whole days.                        *)
(***************************************************************************)

MaxFetchDay == 7        \* the calendar of the services is observed up to this day
MaxRetryAttempts == 3   \* largest max_retry_attempts configured; 3 is the default

\* (datetime.now() - cached_time).days < 7
CacheMaxAgeDays == 7

FetchMethods == {"search_jobs", "get_job_details", "get_profile", "get_company"}

\* the operations that look for a cached record
CachedMethods == {"get_job_details", "get_profile", "get_company"}

\* the "_cached_at" member of a cached dict: the dict lacks it, it is a
\* string that is no ISO date, or it is datetime.isoformat() of day d
NoCachedAt == [iso |-> "lacking"]
BadCachedAt == [iso |-> "invalid"]
CachedAt(d) == [iso |-> "date", day |-> d]

\* a cache file holding a dict with its stamp and its description
EntityFile(cached_at, description) ==
    [kind |-> "json", _cached_at |-> cached_at, description |-> description]

\* datetime.fromisoformat(cached_at)
fromisoformat(s) ==
    IF s.iso = "date"
    THEN [t |-> "return", day |-> s.day]
    ELSE [t |-> "raise", kind |-> "ValueError"]

\* _get_cached_job, _get_cached_profile, _get_cached_company: None unless
\* the file exists and json.load reads it
_get_cached(file) ==
    IF file.kind = "json" THEN [found |-> TRUE, data |-> file]
                          ELSE [found |-> FALSE]

\* cached_at = cached.get("_cached_at"); if cached_at: try:
\*     if (datetime.now() - datetime.fromisoformat(cached_at)).days < 7
\* except ValueError: pass
IsFresh(data, t) ==
    /\ data._cached_at # NoCachedAt
    /\ fromisoformat(data._cached_at).t = "return"
    /\ t - fromisoformat(data._cached_at).day < CacheMaxAgeDays

\* the test under which the operation returns the cached record
ServesCached(method, file, t) ==
    LET cached == _get_cached(file) IN
    CASE method = "get_job_details" ->
            cached.found /\ Truthy(cached.data.description)
      [] method \in {"get_profile", "get_company"} ->
            cached.found /\ IsFresh(cached.data, t)
      [] OTHER -> FALSE

\* what an upstream call yields: a record, an empty answer, an exception
UpstreamOutcomes == {"data", "empty", "raise"}

\* the cache file after the path that fetched o has cached it at time t:
\* _cache_job_details returns at once for a record without job_id and keeps
\* the members the file holds; _cache_profile and _cache_company overwrite
CacheAfterFetch(method, file, o, t) ==
    LET description == IF o = "data" THEN "long text" ELSE "" IN
    CASE method = "search_jobs" -> file
      [] method = "get_job_details" ->
            IF o = "empty" THEN file
            ELSE EntityFile(CachedAt(t),
                            IF file.kind = "json" THEN file.description
                                                  ELSE description)
      [] OTHER -> EntityFile(CachedAt(t), description)

\* variant: the first failed attempt ends the programmatic path
LastAttempt_First(attempt_, max_retries) == TRUE

\* the else of "if attempt < max_retries - 1": the attempt was the last
LastAttempt(attempt_, max_retries) == ~(attempt_ < max_retries - 1)

\* the operation before it is called
FetchRest(method) ==
    [pc |-> "idle", method |-> method, api_client |-> FALSE, driver |-> FALSE,
     max_retries |-> 0, attempt |-> 0, api_calls |-> 0, api_raised |-> 0,
     browser_calls |-> 0, result |-> [t |-> "none"]]

FetchReturns(value, via) == [t |-> "return", value |-> value, via |-> via]
FetchRaises(message) == [t |-> "raise", message |-> message]

\* the cache files the services find
FetchFiles ==
    {AbsentFile, CorruptFile,
     EntityFile(NoCachedAt, "long text"), EntityFile(BadCachedAt, "long text"),
     EntityFile(CachedAt(0), "long text"), EntityFile(CachedAt(0), "")}

FetchInit ==
    /\ DispatcherIdle
    /\ RetryIdle
    /\ LimiterIdle
    /\ AuthIdle
    /\ ClientIdle
    /\ CacheIdle
    /\ LoopIdle
    /\ HandlerIdle
    /\ TasksIdle
    /\ CallersIdle
    /\ WritersIdle
    /\ entity_file \in FetchFiles
    /\ fetch_now = 0
    /\ \E method \in FetchMethods : fetch = FetchRest(method)

\* the operation up to its first upstream call: _check_session, the cached
\* record, get_api_client.  held and drv tell whether the manager holds an
\* API client and a usable driver, n is max_retry_attempts
FetchCall(held, drv, n) ==
    /\ fetch.pc = "idle"
    /\ LET called == [fetch EXCEPT !.api_client = held, !.driver = drv,
                                   !.max_retries = n]
       IN  fetch' =
             IF ~(held \/ drv)
             THEN [called EXCEPT !.pc = "done",
                                 !.result = FetchRaises("Not logged in")]
             ELSE IF ServesCached(fetch.method, entity_file, fetch_now)
             THEN [called EXCEPT !.pc = "done",
                                 !.result = FetchReturns("cached", "cache")]
             ELSE IF held
             THEN [called EXCEPT !.pc = "api"]
             ELSE [called EXCEPT !.pc = "browser"]
    /\ UNCHANGED <<entity_file, fetch_now>>
    /\ UNCHANGED outside_fetch

\* one round of "for attempt in range(max_retries)" of _api_*: the call,
\* the formatting and the caching, or the except clause
ApiAttempt(o) ==
    /\ fetch.pc = "api"
    /\ fetch.attempt < fetch.max_retries
    /\ IF o = "raise"
       THEN /\ fetch' = [fetch EXCEPT
                           !.api_calls = @ + 1,
                           !.api_raised = @ + 1,
                           !.pc = IF LastAttempt(fetch.attempt, fetch.max_retries)
                                  THEN "browser" ELSE "sleep"]
            /\ UNCHANGED entity_file
       ELSE /\ fetch' = [fetch EXCEPT
                           !.api_calls = @ + 1,
                           !.pc = "done",
                           !.result = FetchReturns(o, "api")]
            /\ entity_file' = CacheAfterFetch(fetch.method, entity_file, o, fetch_now)
    /\ UNCHANGED fetch_now
    /\ UNCHANGED outside_fetch

\* time.sleep(retry_delay) and the next round
ApiSleep ==
    /\ fetch.pc = "sleep"
    /\ fetch' = [fetch EXCEPT !.pc = "api", !.attempt = @ + 1]
    /\ UNCHANGED <<entity_file, fetch_now>>
    /\ UNCHANGED outside_fetch

\* range(max_retries) is used up without a return or a raise: _api_*
\* returns None, and so does the operation
ApiLoopEnds ==
    /\ fetch.pc = "api"
    /\ ~(fetch.attempt < fetch.max_retries)
    /\ fetch' = [fetch EXCEPT !.pc = "done",
                              !.result = FetchReturns("None", "api")]
    /\ UNCHANGED <<entity_file, fetch_now>>
    /\ UNCHANGED outside_fetch

\* _browser_*: no driver, or the pages are read and the record cached, or
\* an exception leaves the operation
BrowserFetch(o) ==
    /\ fetch.pc = "browser"
    /\ IF ~fetch.driver
       THEN /\ fetch' = [fetch EXCEPT
                           !.browser_calls = @ + 1,
                           !.pc = "done",
                           !.result = FetchRaises("Browser driver not available, please login first")]
            /\ UNCHANGED entity_file
       ELSE IF o = "raise"
       THEN /\ fetch' = [fetch EXCEPT
                           !.browser_calls = @ + 1,
                           !.pc = "done",
                           !.result = FetchRaises("browser")]
            /\ UNCHANGED entity_file
       ELSE /\ fetch' = [fetch EXCEPT
                           !.browser_calls = @ + 1,
                           !.pc = "done",
                           !.result = FetchReturns(o, "browser")]
            /\ entity_file' = CacheAfterFetch(fetch.method, entity_file, o, fetch_now)
    /\ UNCHANGED fetch_now
    /\ UNCHANGED outside_fetch

\* the caller has the result; the service is ready for the next call
FetchReturn ==
    /\ fetch.pc = "done"
    /\ fetch' = FetchRest(fetch.method)
    /\ UNCHANGED <<entity_file, fetch_now>>
    /\ UNCHANGED outside_fetch

\* midnight
FetchDayPasses ==
    /\ fetch.pc = "idle"
    /\ fetch_now < MaxFetchDay
    /\ fetch_now' = fetch_now + 1
    /\ UNCHANGED <<entity_file, fetch>>
    /\ UNCHANGED outside_fetch

FetchNext ==
    \/ \E held, drv \in BOOLEAN, n \in 0..MaxRetryAttempts : FetchCall(held, drv, n)
    \/ \E o \in UpstreamOutcomes : ApiAttempt(o)
    \/ ApiSleep
    \/ ApiLoopEnds
    \/ \E o \in UpstreamOutcomes : BrowserFetch(o)
    \/ FetchReturn
    \/ FetchDayPasses

FetchSpec == FetchInit /\ [][FetchNext]_vars

(***************************************************************************)
(* Properties of the entity operations                                     *)
(***************************************************************************)

\* the operation is in, or has been through, its browser path
BrowserInvoked(f) == f.pc = "browser" \/ f.browser_calls > 0

\* C35: the browser path of search_jobs, get_job_details, get_profile and
\* get_company is invoked only when no API client is held or the
\* programmatic path raised after max_retry_attempts failed attempts; an
\* empty programmatic result is returned as it is, without the browser
\* path; and no programmatic call is made after the browser path
C35_BrowserOnlyAsFallback ==
    [][ /\ BrowserInvoked(fetch') =>
              \/ ~fetch'.api_client
              \/ /\ fetch'.max_retries > 0
                 /\ fetch'.api_calls = fetch'.max_retries
                 /\ fetch'.api_raised = fetch'.max_retries
        /\ ApiAttempt("empty") =>
              /\ fetch'.pc = "done"
              /\ fetch'.result = FetchReturns("empty", "api")
              /\ fetch'.browser_calls = 0
        /\ (BrowserInvoked(fetch) /\ fetch'.pc # "idle") =>
              fetch'.api_calls = fetch.api_calls ]_vars

\* an operation holding an API client returned the browser's record after
\* three failed programmatic attempts
C35_Witness ==
    /\ fetch.pc = "done"
    /\ fetch.api_client
    /\ fetch.max_retries = 3
    /\ fetch.api_raised = 3
    /\ fetch.browser_calls = 1
    /\ fetch.result = FetchReturns("data", "browser")

\* C36: get_profile, get_company and get_job_details return the cached
\* record without an upstream fetch only if its _cached_at is less than 7
\* days old; a record 7 or more days old, or without a valid _cached_at,
\* leads to an upstream fetch
C36_CachedOnlyIfFresh ==
    [][ (/\ fetch.pc = "idle"
         /\ fetch'.pc # "idle"
         /\ fetch'.method \in CachedMethods
         /\ fetch'.result.t # "raise")
           => LET fresh == /\ entity_file.kind = "json"
                           /\ IsFresh(entity_file, fetch_now)
              IN  /\ fetch'.pc = "done" => fresh
                  /\ ~fresh => fetch'.pc \in {"api", "browser"} ]_vars

\* the same for get_profile and get_company alone
ProfileCachedOnlyIfFresh ==
    [][ (/\ fetch.pc = "idle"
         /\ fetch'.pc # "idle"
         /\ fetch'.method \in {"get_profile", "get_company"}
         /\ fetch'.result.t # "raise")
           => LET fresh == /\ entity_file.kind = "json"
                           /\ IsFresh(entity_file, fetch_now)
              IN  /\ fetch'.pc = "done" => fresh
                  /\ ~fresh => fetch'.pc \in {"api", "browser"} ]_vars

(***************************************************************************)
(* The cache files under concurrent use                                    *)
(*                                                                         *)
(* _save_session, _cache_job_details, _cache_profile and _cache_company    *)
(* write a file with "with open(path, 'w' or 'wb') as f: dump(data, f)":   *)
(* open truncates the file in place, the buffered data goes to the file in *)
(* one or more writes, each at the writer's own offset, the last of them   *)
(* at close.  _load_session and _get_cached_* test exists(), open the file *)
(* and load it inside try/except.  The steps of several writers and of a   *)
(* reader (threads or server processes sharing the data directory)         *)
(* interleave.                                                             *)
(***************************************************************************)

MaxWriters == 2         \* writers of the one key
MaxChunks == 2          \* writes a record's data is handed to the file in

KeyWriters == 1..MaxWriters

\* the k-th part of the data of writer w; a hole left by a write beyond the
\* end of the file
Chunk(w, k) == [w |-> w, k |-> k]
Hole == Chunk(0, 0)

\* the complete output of writer w
Output(w) == [k \in 1..MaxChunks |-> Chunk(w, k)]

\* write(chunk) at position pos of a file holding bytes
WriteAt(bytes, pos, chunk) ==
    [k \in 1..(IF pos > Len(bytes) THEN pos ELSE Len(bytes)) |->
        IF k = pos THEN chunk
        ELSE IF k <= Len(bytes) THEN bytes[k]
        ELSE Hole]

\* pickle.load / json.load of the bytes: the record of the writer whose
\* complete output they are, an exception for anything else
Load(bytes) ==
    IF \E w \in KeyWriters : bytes = Output(w)
    THEN [t |-> "return", record |-> bytes[1].w]
    ELSE [t |-> "raise"]

WritersInit ==
    /\ DispatcherIdle
    /\ RetryIdle
    /\ LimiterIdle
    /\ AuthIdle
    /\ ClientIdle
    /\ CacheIdle
    /\ LoopIdle
    /\ HandlerIdle
    /\ TasksIdle
    /\ CallersIdle
    /\ FetchIdle
    /\ key_file = [exists |-> FALSE, bytes |-> <<>>]
    /\ key_writers = [w \in KeyWriters |-> [pc |-> "idle", offset |-> 0]]
    /\ key_reader = [t |-> "none"]

\* open(path, "w"): the file is created or truncated
WriterOpen(w) ==
    /\ key_reader.t # "off"
    /\ key_writers[w].pc = "idle"
    /\ key_file' = [exists |-> TRUE, bytes |-> <<>>]
    /\ key_writers' = [key_writers EXCEPT ![w] = [pc |-> "open", offset |-> 0]]
    /\ UNCHANGED key_reader
    /\ UNCHANGED outside_writers

\* the next part of the dumped data reaches the file
WriterWrite(w) ==
    /\ key_reader.t # "off"
    /\ key_writers[w].pc = "open"
    /\ key_writers[w].offset < MaxChunks
    /\ LET pos == key_writers[w].offset + 1 IN
       /\ key_file' = [key_file EXCEPT !.bytes = WriteAt(@, pos, Chunk(w, pos))]
       /\ key_writers' = [key_writers EXCEPT ![w].offset = pos]
    /\ UNCHANGED key_reader
    /\ UNCHANGED outside_writers

\* the with block is left after the last write
WriterClose(w) ==
    /\ key_reader.t # "off"
    /\ key_writers[w].pc = "open"
    /\ key_writers[w].offset = MaxChunks
    /\ key_writers' = [key_writers EXCEPT ![w] = [pc |-> "idle", offset |-> 0]]
    /\ UNCHANGED <<key_file, key_reader>>
    /\ UNCHANGED outside_writers

\* _load_session / _get_cached_*: None when the file does not exist or
\* loading it raises
ReadKey ==
    /\ key_reader.t # "off"
    /\ key_reader' =
         [t |-> "read", exists |-> key_file.exists, bytes |-> key_file.bytes,
          result |-> IF key_file.exists /\ Load(key_file.bytes).t = "return"
                     THEN "record" ELSE "None"]
    /\ UNCHANGED <<key_file, key_writers>>
    /\ UNCHANGED outside_writers

WritersNext ==
    \/ \E w \in KeyWriters : WriterOpen(w)
    \/ \E w \in KeyWriters : WriterWrite(w)
    \/ \E w \in KeyWriters : WriterClose(w)
    \/ ReadKey

WritersSpec == WritersInit /\ [][WritersNext]_vars

\* the bytes are the complete output of one writer
IsOutput(bytes) == \E w \in KeyWriters : bytes = Output(w)

\* a reader that finds the file missing or unloadable gets None: it never
\* raises
ReaderToleratesMalformed ==
    key_reader.t = "read" =>
        /\ key_reader.result \in {"record", "None"}
        /\ (~key_reader.exists \/ ~IsOutput(key_reader.bytes))
              => key_reader.result = "None"

\* C37: with concurrent writers and readers of one cache key no reader
\* observes a partially written record, the stored record is the complete
\* output of one writer whenever no write is under way, and a reader that
\* finds the record missing or malformed takes it as a cache miss
C37_AtomicWrites ==
    /\ key_reader.t = "read" =>
          (~key_reader.exists \/ IsOutput(key_reader.bytes))
    /\ ((\A w \in KeyWriters : key_writers[w].pc = "idle") /\ key_file.exists)
          => IsOutput(key_file.bytes)
    /\ ReaderToleratesMalformed

\* no reader observes a partially written record
ReaderSeesWholeRecords ==
    key_reader.t = "read" =>
        (~key_reader.exists \/ IsOutput(key_reader.bytes))

\* whenever no write is under way the file is one writer's complete output
StoredRecordIsOneOutput ==
    ((\A w \in KeyWriters : key_writers[w].pc = "idle") /\ key_file.exists)
        => IsOutput(key_file.bytes)

====
